---------------------------- MODULE Spec2Model ----------------------------
(***************************************************************************)
(* Model of the constant-product AMM pricing library of                    *)
(* skills/nt-dex-adapter/templates/dex_order_book_builder.py:              *)
(* calculate_amm_price_levels, amm_spot_price and amm_execution_price.     *)
(*                                                                         *)
(* Numbers.  The source computes on Python floats.  The model computes on  *)
(* exact rationals <<n, d>> (d > 0, lowest terms), i.e. it gives every     *)
(* +, -, *, / of the source its real-number value and leaves IEEE-754      *)
(* rounding out.  float("inf") and the two exceptions the source can raise *)
(* (ValueError in amm_spot_price, ZeroDivisionError of a float division)   *)
(* are modelled as outcomes of their own.                                  *)
(*                                                                         *)
(* The other components of the repository (the A2A envelope, the capsule   *)
(* mapper, the instrument provider, the multi-venue strategy) have a       *)
(* specification each, further down; a specification leaves the variables  *)
(* of the other components parked.                                         *)
(***************************************************************************)
EXTENDS Integers, Sequences, FiniteSets, TLC

\* ------------------------------------------------------------------------
\* Bounds of the input sets
\* ------------------------------------------------------------------------
MaxReserve == 2   \* reserves range over -1 .. MaxReserve
FeeDen     == 3   \* fee rates are 0/FeeDen .. FeeDen/FeeDen (1 included)
AmtDen     == 2   \* trade sizes are k/AmtDen
MaxAmt     == 3   \*   for k in 0 .. MaxAmt
StepDen    == 4   \* size steps are k/StepDen for k in -1 .. StepDen + 1
MaxLevels  == 3   \* num_levels ranges over 0 .. MaxLevels

\* ------------------------------------------------------------------------
\* Exact rational arithmetic (the value of Python's float operators)
\* ------------------------------------------------------------------------
Abs(x) == IF x < 0 THEN -x ELSE x

RECURSIVE GCD(_, _)
GCD(a, b) == IF b = 0 THEN a ELSE GCD(b, a % b)

\* n/d in lowest terms with a positive denominator (d # 0)
Rat(n, d) ==
    LET g == GCD(Abs(n), Abs(d))
        s == IF d < 0 THEN -1 ELSE 1
    IN  <<(s * n) \div g, (s * d) \div g>>

Int2Rat(n)  == <<n, 1>>
Zero        == <<0, 1>>
One         == <<1, 1>>
RAdd(a, b)  == Rat(a[1] * b[2] + b[1] * a[2], a[2] * b[2])
RSub(a, b)  == Rat(a[1] * b[2] - b[1] * a[2], a[2] * b[2])
RMul(a, b)  == Rat(a[1] * b[1], a[2] * b[2])
\* b # 0; the callers test for a zero divisor first
RDiv(a, b)  == Rat(a[1] * b[2], a[2] * b[1])
RLt(a, b)   == a[1] * b[2] < b[1] * a[2]
RLe(a, b)   == a[1] * b[2] <= b[1] * a[2]
RIsZero(a)  == a[1] = 0
RPos(a)     == a[1] > 0

\* ------------------------------------------------------------------------
\* Float outcomes: a finite number, +infinity, or a raised exception
\* ------------------------------------------------------------------------
Num(q)     == [kind |-> "num", val |-> q]
Inf        == [kind |-> "inf", val |-> Zero]
Raise(e)   == [kind |-> e, val |-> Zero]

\* a > b on float outcomes that are numbers or +infinity
FGt(a, b) ==
    /\ a.kind \in {"num", "inf"}
    /\ b.kind \in {"num", "inf"}
    /\ IF a.kind = "inf" THEN b.kind = "num"
       ELSE b.kind = "num" /\ RLt(b.val, a.val)

\* ------------------------------------------------------------------------
\* amm_spot_price
\* ------------------------------------------------------------------------
\* Slip: the guard rejects every non-positive reserve0, not only zero
amm_spot_price_nonpositive(reserve0, reserve1) ==
    IF RLe(reserve0, Zero)
    THEN Raise("ValueError: reserve0 is zero")
    ELSE Num(RDiv(reserve1, reserve0))

amm_spot_price(reserve0, reserve1) ==
    IF RIsZero(reserve0)
    THEN Raise("ValueError: reserve0 is zero")
    ELSE Num(RDiv(reserve1, reserve0))

\* ------------------------------------------------------------------------
\* amm_execution_price
\* ------------------------------------------------------------------------
\* Slip: the buy branch returns amount_out / amount_in (the ratio inverted)
amm_execution_price_inverted_buy(reserve0, reserve1, amount_in, fee_rate, is_buy) ==
    LET k == RMul(reserve0, reserve1)
        amount_in_adjusted == RMul(amount_in, RSub(One, fee_rate))
    IN  IF is_buy
        THEN LET new_reserve1 == RAdd(reserve1, amount_in_adjusted)
             IN  IF RIsZero(new_reserve1) THEN Raise("ZeroDivisionError")
                 ELSE LET new_reserve0 == RDiv(k, new_reserve1)
                          amount_out   == RSub(reserve0, new_reserve0)
                      IN  IF RPos(amount_out)
                          THEN IF RIsZero(amount_in)
                               THEN Raise("ZeroDivisionError")
                               ELSE Num(RDiv(amount_out, amount_in))
                          ELSE Inf
        ELSE LET new_reserve0 == RAdd(reserve0, amount_in_adjusted)
             IN  IF RIsZero(new_reserve0) THEN Raise("ZeroDivisionError")
                 ELSE LET new_reserve1 == RDiv(k, new_reserve0)
                          amount_out   == RSub(reserve1, new_reserve1)
                      IN  IF RPos(amount_in)
                          THEN Num(RDiv(amount_out, amount_in))
                          ELSE Num(Zero)

\* Slip: the sell branch takes the input out of reserve0 (sign of the update)
amm_execution_price_sell_sign(reserve0, reserve1, amount_in, fee_rate, is_buy) ==
    LET k == RMul(reserve0, reserve1)
        amount_in_adjusted == RMul(amount_in, RSub(One, fee_rate))
    IN  IF is_buy
        THEN LET new_reserve1 == RAdd(reserve1, amount_in_adjusted)
             IN  IF RIsZero(new_reserve1) THEN Raise("ZeroDivisionError")
                 ELSE LET new_reserve0 == RDiv(k, new_reserve1)
                          amount_out   == RSub(reserve0, new_reserve0)
                      IN  IF RPos(amount_out)
                          THEN Num(RDiv(amount_in, amount_out))
                          ELSE Inf
        ELSE LET new_reserve0 == RSub(reserve0, amount_in_adjusted)
             IN  IF RIsZero(new_reserve0) THEN Raise("ZeroDivisionError")
                 ELSE LET new_reserve1 == RDiv(k, new_reserve0)
                          amount_out   == RSub(reserve1, new_reserve1)
                      IN  IF RPos(amount_in)
                          THEN Num(RDiv(amount_out, amount_in))
                          ELSE Num(Zero)

\* Slip: the buy price divides the fee-adjusted input, not the gross one
amm_execution_price_net_numerator(reserve0, reserve1, amount_in, fee_rate, is_buy) ==
    LET k == RMul(reserve0, reserve1)
        amount_in_adjusted == RMul(amount_in, RSub(One, fee_rate))
    IN  IF is_buy
        THEN LET new_reserve1 == RAdd(reserve1, amount_in_adjusted)
             IN  IF RIsZero(new_reserve1) THEN Raise("ZeroDivisionError")
                 ELSE LET new_reserve0 == RDiv(k, new_reserve1)
                          amount_out   == RSub(reserve0, new_reserve0)
                      IN  IF RPos(amount_out)
                          THEN Num(RDiv(amount_in_adjusted, amount_out))
                          ELSE Inf
        ELSE LET new_reserve0 == RAdd(reserve0, amount_in_adjusted)
             IN  IF RIsZero(new_reserve0) THEN Raise("ZeroDivisionError")
                 ELSE LET new_reserve1 == RDiv(k, new_reserve0)
                          amount_out   == RSub(reserve1, new_reserve1)
                      IN  IF RPos(amount_in)
                          THEN Num(RDiv(amount_out, amount_in))
                          ELSE Num(Zero)

\* Slip: the sell branch takes the fee from the token1 output instead of
\* the token0 input
amm_execution_price_fee_on_output(reserve0, reserve1, amount_in, fee_rate, is_buy) ==
    LET k == RMul(reserve0, reserve1)
        amount_in_adjusted == RMul(amount_in, RSub(One, fee_rate))
    IN  IF is_buy
        THEN LET new_reserve1 == RAdd(reserve1, amount_in_adjusted)
             IN  IF RIsZero(new_reserve1) THEN Raise("ZeroDivisionError")
                 ELSE LET new_reserve0 == RDiv(k, new_reserve1)
                          amount_out   == RSub(reserve0, new_reserve0)
                      IN  IF RPos(amount_out)
                          THEN Num(RDiv(amount_in, amount_out))
                          ELSE Inf
        ELSE LET new_reserve0 == RAdd(reserve0, amount_in)
             IN  IF RIsZero(new_reserve0) THEN Raise("ZeroDivisionError")
                 ELSE LET new_reserve1 == RDiv(k, new_reserve0)
                          amount_out   == RMul(RSub(reserve1, new_reserve1), RSub(One, fee_rate))
                      IN  IF RPos(amount_in)
                          THEN Num(RDiv(amount_out, amount_in))
                          ELSE Num(Zero)

amm_execution_price(reserve0, reserve1, amount_in, fee_rate, is_buy) ==
    LET k == RMul(reserve0, reserve1)
        amount_in_adjusted == RMul(amount_in, RSub(One, fee_rate))
    IN  IF is_buy
        THEN LET new_reserve1 == RAdd(reserve1, amount_in_adjusted)
             IN  IF RIsZero(new_reserve1) THEN Raise("ZeroDivisionError")
                 ELSE LET new_reserve0 == RDiv(k, new_reserve1)
                          amount_out   == RSub(reserve0, new_reserve0)
                      IN  IF RPos(amount_out)
                          THEN Num(RDiv(amount_in, amount_out))
                          ELSE Inf
        ELSE LET new_reserve0 == RAdd(reserve0, amount_in_adjusted)
             IN  IF RIsZero(new_reserve0) THEN Raise("ZeroDivisionError")
                 ELSE LET new_reserve1 == RDiv(k, new_reserve0)
                          amount_out   == RSub(reserve1, new_reserve1)
                      IN  IF RPos(amount_in)
                          THEN Num(RDiv(amount_out, amount_in))
                          ELSE Num(Zero)

\* ------------------------------------------------------------------------
\* calculate_amm_price_levels
\* ------------------------------------------------------------------------
\* Outcome of the level generator: the two lists, or a raised exception
Levels(bid_levels, ask_levels) ==
    [kind |-> "ok", bids |-> bid_levels, asks |-> ask_levels]
LevelsRaise(e) == [kind |-> e, bids |-> <<>>, asks |-> <<>>]

\* Slip: the ask adds trade_size to reserve0 instead of removing it
ask_price_sign_slip(reserve0, reserve1, fee_rate, trade_size) ==
    LET k                  == RMul(reserve0, reserve1)
        new_reserve1_ask   == RDiv(k, RAdd(reserve0, trade_size))
        amount_in_token1   == RSub(new_reserve1_ask, reserve1)
        amount_in_with_fee == RDiv(amount_in_token1, RSub(One, fee_rate))
    IN  RDiv(amount_in_with_fee, trade_size)

\* Slip: the ask multiplies the input by (1 - fee_rate) instead of dividing
ask_price_fee_multiplied(reserve0, reserve1, fee_rate, trade_size) ==
    LET k                  == RMul(reserve0, reserve1)
        new_reserve1_ask   == RDiv(k, RSub(reserve0, trade_size))
        amount_in_token1   == RSub(new_reserve1_ask, reserve1)
        amount_in_with_fee == RMul(amount_in_token1, RSub(One, fee_rate))
    IN  RDiv(amount_in_with_fee, trade_size)

\* Ask rung: cost per unit of buying trade_size of token0
\* (reserve0 - trade_size > 0 and fee_rate # 1 are tested by the loop)
ask_price(reserve0, reserve1, fee_rate, trade_size) ==
    LET k                  == RMul(reserve0, reserve1)
        new_reserve1_ask   == RDiv(k, RSub(reserve0, trade_size))
        amount_in_token1   == RSub(new_reserve1_ask, reserve1)
        amount_in_with_fee == RDiv(amount_in_token1, RSub(One, fee_rate))
    IN  RDiv(amount_in_with_fee, trade_size)

\* Slip: the bid takes the fee from the output instead of the input
bid_price_fee_on_output(reserve0, reserve1, fee_rate, trade_size) ==
    LET k                  == RMul(reserve0, reserve1)
        new_reserve1_bid   == RDiv(k, RAdd(reserve0, trade_size))
        amount_out_token1  == RMul(RSub(reserve1, new_reserve1_bid),
                                   RSub(One, fee_rate))
    IN  RDiv(amount_out_token1, trade_size)

\* Bid rung: revenue per unit of selling trade_size of token0
\* (reserve0 + trade_size * (1 - fee_rate) # 0 is tested by the loop)
bid_price(reserve0, reserve1, fee_rate, trade_size) ==
    LET k                  == RMul(reserve0, reserve1)
        amount_in_adjusted == RMul(trade_size, RSub(One, fee_rate))
        new_reserve1_bid   == RDiv(k, RAdd(reserve0, amount_in_adjusted))
        amount_out_token1  == RSub(reserve1, new_reserve1_bid)
    IN  RDiv(amount_out_token1, trade_size)

\* Slip: the rungs are counted from 0 (range(num_levels))
trade_size_of_zero_based(reserve0, size_step, i) ==
    RMul(RMul(reserve0, size_step), Int2Rat(i - 1))

\* Slip: every rung trades one step (the factor i is dropped)
trade_size_of_one_step(reserve0, size_step, i) ==
    RMul(reserve0, size_step)

\* trade_size of rung i
trade_size_of(reserve0, size_step, i) ==
    RMul(RMul(reserve0, size_step), Int2Rat(i))

\* Slip: the depth check guards the ask rung only; the bid rung of a trade
\* beyond the pool's depth is still emitted and the loop goes on
RECURSIVE levels_loop_ask_guard_only(_, _, _, _, _, _, _, _)
levels_loop_ask_guard_only(reserve0, reserve1, fee_rate, num_levels, size_step, i, bid_levels, ask_levels) ==
    IF i > num_levels THEN Levels(bid_levels, ask_levels)
    ELSE
    LET trade_size == trade_size_of(reserve0, size_step, i)
        deep       == ~RPos(RSub(reserve0, trade_size))
    IN  IF RIsZero(RSub(One, fee_rate))
        THEN LevelsRaise("ZeroDivisionError")
        ELSE IF RIsZero(RAdd(reserve0,
                             RMul(trade_size, RSub(One, fee_rate))))
        THEN LevelsRaise("ZeroDivisionError")
        ELSE
        LET asks2 == IF RPos(trade_size) /\ ~deep
                     THEN Append(ask_levels,
                                 <<ask_price(reserve0, reserve1, fee_rate,
                                             trade_size), trade_size>>)
                     ELSE ask_levels
            bids2 == IF RPos(trade_size)
                     THEN Append(bid_levels,
                                 <<bid_price(reserve0, reserve1, fee_rate,
                                             trade_size), trade_size>>)
                     ELSE bid_levels
        IN  levels_loop_ask_guard_only(reserve0, reserve1, fee_rate,
                                       num_levels, size_step,
                                       i + 1, bids2, asks2)

\* The body of "for i in range(1, num_levels + 1)", from rung i on
RECURSIVE levels_loop(_, _, _, _, _, _, _, _)
levels_loop(reserve0, reserve1, fee_rate, num_levels, size_step, i, bid_levels, ask_levels) ==
    IF i > num_levels THEN Levels(bid_levels, ask_levels)
    ELSE
    LET trade_size == trade_size_of(reserve0, size_step, i)
    IN  IF ~RPos(RSub(reserve0, trade_size))
        THEN Levels(bid_levels, ask_levels)                      \* break
        ELSE IF RIsZero(RSub(One, fee_rate))
        THEN LevelsRaise("ZeroDivisionError")
        ELSE IF RIsZero(RAdd(reserve0,
                             RMul(trade_size, RSub(One, fee_rate))))
        THEN LevelsRaise("ZeroDivisionError")
        ELSE
        LET asks2 == IF RPos(trade_size)
                     THEN Append(ask_levels,
                                 <<ask_price(reserve0, reserve1, fee_rate,
                                             trade_size), trade_size>>)
                     ELSE ask_levels
            bids2 == IF RPos(trade_size)
                     THEN Append(bid_levels,
                                 <<bid_price(reserve0, reserve1, fee_rate,
                                             trade_size), trade_size>>)
                     ELSE bid_levels
        IN  levels_loop(reserve0, reserve1, fee_rate, num_levels, size_step,
                        i + 1, bids2, asks2)

\* Slip: the entry check lets a zero reserve through (< for <=)
calculate_amm_price_levels_strict_check(reserve0, reserve1, fee_rate, num_levels, size_step) ==
    IF RLt(reserve0, Zero) \/ RLt(reserve1, Zero)
    THEN Levels(<<>>, <<>>)
    ELSE levels_loop(reserve0, reserve1, fee_rate, num_levels, size_step,
                     1, <<>>, <<>>)

\* Slip: size_step is spread over the requested levels
calculate_amm_price_levels_step_per_level(reserve0, reserve1, fee_rate, num_levels, size_step) ==
    IF RLe(reserve0, Zero) \/ RLe(reserve1, Zero)
    THEN Levels(<<>>, <<>>)
    ELSE levels_loop(reserve0, reserve1, fee_rate, num_levels,
                     IF num_levels > 0
                     THEN RDiv(size_step, Int2Rat(num_levels))
                     ELSE size_step,
                     1, <<>>, <<>>)

calculate_amm_price_levels(reserve0, reserve1, fee_rate, num_levels, size_step) ==
    IF RLe(reserve0, Zero) \/ RLe(reserve1, Zero)
    THEN Levels(<<>>, <<>>)
    ELSE levels_loop(reserve0, reserve1, fee_rate, num_levels, size_step,
                     1, <<>>, <<>>)

\* ------------------------------------------------------------------------
\* The simulated post-trade reserves <<token0 reserve, token1 reserve>>
\* ------------------------------------------------------------------------
\* Slip: the curve is solved with the pre-trade reserve (k / reserve)
new_reserves_exec_stale(reserve0, reserve1, amount_in, fee_rate, is_buy) ==
    LET k == RMul(reserve0, reserve1)
        amount_in_adjusted == RMul(amount_in, RSub(One, fee_rate))
    IN  IF is_buy
        THEN IF RIsZero(reserve1) THEN <<>>
             ELSE <<<<RDiv(k, reserve1), RAdd(reserve1, amount_in_adjusted)>>>>
        ELSE IF RIsZero(reserve0) THEN <<>>
             ELSE <<<<RAdd(reserve0, amount_in_adjusted), RDiv(k, reserve0)>>>>

\* amm_execution_price: the post-trade reserves new_reserve0, new_reserve1
\* of either branch, as a sequence of one pair; none when the division
\* raises
new_reserves_exec(reserve0, reserve1, amount_in, fee_rate, is_buy) ==
    LET k == RMul(reserve0, reserve1)
        amount_in_adjusted == RMul(amount_in, RSub(One, fee_rate))
    IN  IF is_buy
        THEN LET new_reserve1 == RAdd(reserve1, amount_in_adjusted)
             IN  IF RIsZero(new_reserve1) THEN <<>>
                 ELSE <<<<RDiv(k, new_reserve1), new_reserve1>>>>
        ELSE LET new_reserve0 == RAdd(reserve0, amount_in_adjusted)
             IN  IF RIsZero(new_reserve0) THEN <<>>
                 ELSE <<<<new_reserve0, RDiv(k, new_reserve0)>>>>

\* ask rung: the pool is left with reserve0 - trade_size of token0
new_reserves_ask(reserve0, reserve1, trade_size) ==
    LET k == RMul(reserve0, reserve1)
    IN  <<RSub(reserve0, trade_size), RDiv(k, RSub(reserve0, trade_size))>>

\* bid rung: the pool receives trade_size * (1 - fee_rate) of token0
new_reserves_bid(reserve0, reserve1, fee_rate, trade_size) ==
    LET k == RMul(reserve0, reserve1)
        amount_in_adjusted == RMul(trade_size, RSub(One, fee_rate))
    IN  <<RAdd(reserve0, amount_in_adjusted),
          RDiv(k, RAdd(reserve0, amount_in_adjusted))>>

\* ------------------------------------------------------------------------
\* The callers: a pool and the calls made on it
\* ------------------------------------------------------------------------
VARIABLES
    reserve0,   \* the pool's token0 reserve, as handed to every call
    reserve1,   \* the pool's token1 reserve
    prev,       \* the call before the last one (NoCall if there is none)
    last,       \* the last call, with its arguments and its outcome
    sims,       \* the post-trade reserves the last call simulated
    env,        \* A2A envelope: the envelope at hand and its validation
    bundle,     \* capsule mapper: the last mapping call and its outcome
    prov,       \* instrument provider: its dict, the dicts it handed out
    strat,      \* multi-venue strategy: its fields
    tickOut,    \* multi-venue strategy: what the last on_quote_tick did
    book,       \* order book builder: the last snapshot call and its batch
    dataClient, \* DEX data client: its poll tasks and every task created
    factory,    \* adapter factories: the provider cache, the clients made
    execClient, \* DEX execution client: pending txs, the last submission
    algo        \* execution algorithm: its schedule, orders and alerts

ammVars == <<reserve0, reserve1, prev, last, sims>>
restVars == <<book, dataClient, factory, execClient, algo>>
others  == <<env, bundle, prov, strat, tickOut, restVars>>
vars    == <<reserve0, reserve1, prev, last, sims, env, bundle, prov, strat, tickOut, book, dataClient, factory, execClient, algo>>

\* The components a specification does not exercise stay parked
RestParked ==
    /\ book = "parked" /\ dataClient = "parked" /\ factory = "parked"
    /\ execClient = "parked" /\ algo = "parked"

OthersParked ==
    /\ env = "parked" /\ bundle = "parked" /\ prov = "parked"
    /\ strat = "parked" /\ tickOut = "parked"
    /\ RestParked

Reserves  == {Int2Rat(n) : n \in -1 .. MaxReserve}
FeeRates  == {Rat(n, FeeDen) : n \in 0 .. FeeDen}
Amounts   == {Rat(n, AmtDen) : n \in 0 .. MaxAmt}
SizeSteps == {Rat(n, StepDen) : n \in -1 .. StepDen + 1}
NumLevels == 0 .. MaxLevels

\* One call: the function, its arguments besides the reserves, its outcome.
\* kind/val hold a float outcome, kind/bids/asks the level generator's.
Call(fn, fee_rate, amount_in, is_buy, num_levels, size_step, kind, val, bids, asks) ==
    [fn |-> fn, fee_rate |-> fee_rate, amount_in |-> amount_in,
     is_buy |-> is_buy, num_levels |-> num_levels, size_step |-> size_step,
     kind |-> kind, val |-> val, bids |-> bids, asks |-> asks]

NoCall == Call("none", Zero, Zero, FALSE, 0, Zero, "none", Zero, <<>>, <<>>)

\* no trade simulated: amm_execution_price's post-trade reserves, and
\* those of the ask and bid rungs of calculate_amm_price_levels
NoSims == [exec |-> <<>>, ask |-> <<>>, bid |-> <<>>]

Init ==
    /\ reserve0 \in Reserves
    /\ reserve1 \in Reserves
    /\ prev = NoCall
    /\ last = NoCall
    /\ sims = NoSims
    /\ OthersParked

\* A caller compares at most two calls on the same reserves
Record(c) ==
    /\ prev = NoCall
    /\ prev' = last
    /\ last' = c
    /\ UNCHANGED <<reserve0, reserve1>>
    /\ UNCHANGED others

SpotPrice ==
    LET r == amm_spot_price(reserve0, reserve1)
    IN  /\ Record(Call("amm_spot_price", Zero, Zero, FALSE, 0, Zero,
                       r.kind, r.val, <<>>, <<>>))
        /\ sims' = NoSims

ExecutionPrice ==
    \E amount_in \in Amounts, fee_rate \in FeeRates, is_buy \in BOOLEAN :
        LET r == amm_execution_price(reserve0, reserve1, amount_in,
                                     fee_rate, is_buy)
        IN  /\ Record(Call("amm_execution_price", fee_rate, amount_in,
                           is_buy, 0, Zero, r.kind, r.val, <<>>, <<>>))
            /\ sims' = [NoSims EXCEPT !.exec =
                           new_reserves_exec(reserve0, reserve1, amount_in,
                                             fee_rate, is_buy)]

PriceLevels ==
    \E fee_rate \in FeeRates, num_levels \in NumLevels,
       size_step \in SizeSteps :
        LET r == calculate_amm_price_levels(reserve0, reserve1, fee_rate,
                                            num_levels, size_step)
        IN  /\ Record(Call("calculate_amm_price_levels", fee_rate, Zero,
                           FALSE, num_levels, size_step, r.kind, Zero,
                           r.bids, r.asks))
            /\ sims' = [NoSims EXCEPT
                   !.ask = [i \in 1 .. Len(r.asks) |->
                              new_reserves_ask(reserve0, reserve1,
                                               r.asks[i][2])],
                   !.bid = [i \in 1 .. Len(r.bids) |->
                              new_reserves_bid(reserve0, reserve1, fee_rate,
                                               r.bids[i][2])]]

Next == SpotPrice \/ ExecutionPrice \/ PriceLevels

Spec == Init /\ [][Next]_vars

\* ------------------------------------------------------------------------
\* Vocabulary of the properties
\* ------------------------------------------------------------------------
IsSpot(c)   == c.fn = "amm_spot_price"
IsExec(c)   == c.fn = "amm_execution_price"
IsLevels(c) == c.fn = "calculate_amm_price_levels"

ValidPool   == RPos(reserve0) /\ RPos(reserve1)
ValidFee(f) == RLe(Zero, f) /\ RLt(f, One)
OneMinus(f) == RSub(One, f)

\* an outcome as a float outcome record
Out(c) == [kind |-> c.kind, val |-> c.val]

\* min(ask prices) - max(bid prices) of a call with a level on each side
RECURSIVE MinPrice(_, _)
MinPrice(levels, n) ==
    IF n = 1 THEN levels[1][1]
    ELSE LET m == MinPrice(levels, n - 1)
         IN  IF RLt(levels[n][1], m) THEN levels[n][1] ELSE m
RECURSIVE MaxPrice(_, _)
MaxPrice(levels, n) ==
    IF n = 1 THEN levels[1][1]
    ELSE LET m == MaxPrice(levels, n - 1)
         IN  IF RLt(m, levels[n][1]) THEN levels[n][1] ELSE m
Spread(c) ==
    RSub(MinPrice(c.asks, Len(c.asks)), MaxPrice(c.bids, Len(c.bids)))

IsPrefix(s, t) ==
    /\ Len(s) <= Len(t)
    /\ \A i \in 1 .. Len(s) : s[i] = t[i]

\* ------------------------------------------------------------------------
\* C1: for a pool with reserve0 > 0, reserve1 > 0, fee_rate in [0, 1),
\* size_step > 0 and num_levels >= 1 for which the level generator returns
\* at least one level per side, the highest bid price is strictly below
\* the lowest ask price.
\* ------------------------------------------------------------------------
C1_Case(c) ==
    /\ IsLevels(c) /\ c.kind = "ok"
    /\ ValidPool /\ ValidFee(c.fee_rate)
    /\ RPos(c.size_step) /\ c.num_levels >= 1
    /\ Len(c.bids) >= 1 /\ Len(c.asks) >= 1

C2_Case(sp, c) ==
    /\ IsSpot(sp) /\ IsExec(c)
    /\ ValidPool /\ ValidFee(c.fee_rate) /\ RPos(c.amount_in)

C3_Case(c1, c2) ==
    /\ IsExec(c1) /\ IsExec(c2)
    /\ ValidPool /\ ValidFee(c1.fee_rate)
    /\ c1.fee_rate = c2.fee_rate /\ c1.is_buy = c2.is_buy
    /\ RPos(c1.amount_in) /\ RLt(c1.amount_in, c2.amount_in)

C4_Case(c1, c2) ==
    /\ IsLevels(c1) /\ IsLevels(c2)
    /\ ValidPool
    /\ c1.num_levels >= 1 /\ c1.num_levels = c2.num_levels
    /\ RPos(c1.size_step) /\ RLt(c1.size_step, One)
    /\ c1.size_step = c2.size_step
    /\ ValidFee(c1.fee_rate) /\ ValidFee(c2.fee_rate)
    /\ RLt(c1.fee_rate, c2.fee_rate)

C5_Case(c) ==
    /\ IsLevels(c)
    /\ (RLe(reserve0, Zero) \/ RLe(reserve1, Zero))

\* C5: a non-positive reserve gives ([], []) and no exception
C5_DegeneratePoolEmptyBook ==
    C5_Case(last) =>
        last.kind = "ok" /\ last.bids = <<>> /\ last.asks = <<>>

\* reserve1 is the degenerate one, the fee is 1 and levels are asked for
C5_Witness ==
    /\ C5_Case(last)
    /\ RPos(reserve0) /\ RIsZero(reserve1)
    /\ last.fee_rate = One
    /\ last.num_levels >= 1 /\ RPos(last.size_step)

\* ------------------------------------------------------------------------
\* C6: amm_spot_price raises the "reserve0 is zero" error if and only if
\* reserve0 = 0, whatever reserve1 is; otherwise it raises nothing and
\* returns reserve1 / reserve0.
\* ------------------------------------------------------------------------
\* C6: ValueError iff reserve0 = 0, else the quotient reserve1 / reserve0
C6_SpotPriceContract ==
    IsSpot(last) =>
        /\ (last.kind = "ValueError: reserve0 is zero") <=> RIsZero(reserve0)
        /\ ~RIsZero(reserve0) =>
              /\ last.kind = "num"
              /\ RMul(last.val, reserve0) = reserve1

C6_Witness ==
    /\ IsSpot(last)
    /\ RLt(reserve0, Zero) /\ RPos(reserve1)
    /\ last.kind = "num"

\* ------------------------------------------------------------------------
\* C7: for reserves > 0 and fee_rate in [0, 1), amm_execution_price with
\* amount_in = 0 returns 0.0 and raises nothing, for is_buy = False and
\* for is_buy = True alike.
\* ------------------------------------------------------------------------
C7_Case(c) ==
    /\ IsExec(c)
    /\ ValidPool /\ ValidFee(c.fee_rate)
    /\ RIsZero(c.amount_in)

\* C7: a zero trade size is quoted 0.0 in both directions
C7_ZeroSizeQuoteIsZero ==
    C7_Case(last) => Out(last) = Num(Zero)

\* ------------------------------------------------------------------------
\* C8: for a buy with reserves > 0, fee_rate in [0, 1) and amount_in > 0
\* the result is amount_in / amount_out with
\* amount_out = reserve0 - reserve0*reserve1 / (reserve1 + amount_in*(1 - fee_rate)),
\* the numerator being the gross amount_in, and it is +infinity exactly
\* when amount_out <= 0.
\* ------------------------------------------------------------------------
C8_Case(c) ==
    /\ IsExec(c) /\ c.is_buy
    /\ ValidPool /\ ValidFee(c.fee_rate) /\ RPos(c.amount_in)

C8_AmountOut(c) ==
    RSub(reserve0,
         RDiv(RMul(reserve0, reserve1),
              RAdd(reserve1, RMul(c.amount_in, OneMinus(c.fee_rate)))))

\* C8: buy price * amount_out = gross amount_in; +infinity iff amount_out <= 0
C8_BuyPriceIsGrossOverOut ==
    C8_Case(last) =>
        /\ last.kind \in {"num", "inf"}
        /\ (last.kind = "inf") <=> RLe(C8_AmountOut(last), Zero)
        /\ last.kind = "num" =>
              RMul(last.val, C8_AmountOut(last)) = last.amount_in

C8_Witness ==
    /\ C8_Case(last)
    /\ RPos(last.fee_rate)
    /\ last.kind = "num"

\* ------------------------------------------------------------------------
\* C9: for a non-degenerate pool every emitted rung i has size
\* t = reserve0 * size_step * i on both sides, ask price
\* ((k / (reserve0 - t)) - reserve1) / (1 - fee_rate) / t and bid price
\* (reserve1 - k / (reserve0 + t*(1 - fee_rate))) / t, k = reserve0*reserve1.
\* Stated without the divisions of the code:
\*   (ask * t * (1 - fee_rate) + reserve1) * (reserve0 - t) = k
\*   (reserve1 - bid * t) * (reserve0 + t * (1 - fee_rate))  = k
\* ------------------------------------------------------------------------
C9_Case(c) ==
    /\ IsLevels(c) /\ c.kind = "ok"
    /\ ValidPool

C9_Size(c, i) == RMul(RMul(reserve0, c.size_step), Int2Rat(i))

C9_AskOk(c, i) ==
    LET t == C9_Size(c, i)
        f == OneMinus(c.fee_rate)
    IN  /\ c.asks[i][2] = t
        /\ RMul(RAdd(RMul(RMul(c.asks[i][1], t), f), reserve1),
                RSub(reserve0, t)) = RMul(reserve0, reserve1)

C9_BidOk(c, i) ==
    LET t == C9_Size(c, i)
        f == OneMinus(c.fee_rate)
    IN  /\ c.bids[i][2] = t
        /\ RMul(RSub(reserve1, RMul(c.bids[i][1], t)),
                RAdd(reserve0, RMul(t, f))) = RMul(reserve0, reserve1)

\* C9: every ask rung and every bid rung has the stated size and price
C9_RungFormulas ==
    C9_Case(last) =>
        /\ \A i \in 1 .. Len(last.asks) : C9_AskOk(last, i)
        /\ \A i \in 1 .. Len(last.bids) : C9_BidOk(last, i)

C9_Witness ==
    /\ C9_Case(last)
    /\ RPos(last.fee_rate)
    /\ Len(last.asks) >= 2 /\ Len(last.bids) >= 2

\* ------------------------------------------------------------------------
\* C10: for fixed reserves, fee_rate and size_step and n' < n, the bid list
\* returned with num_levels = n' is a prefix of the one returned with
\* num_levels = n, and likewise the ask list.
\* ------------------------------------------------------------------------
C10_Case(c1, c2) ==
    /\ IsLevels(c1) /\ IsLevels(c2)
    /\ c1.fee_rate = c2.fee_rate /\ c1.size_step = c2.size_step
    /\ c1.num_levels < c2.num_levels
    /\ c1.kind = "ok" /\ c2.kind = "ok"

\* C10: the lists of the call with fewer levels are prefixes of the other's
C10_PrefixStable ==
    C10_Case(prev, last) =>
        /\ IsPrefix(prev.bids, last.bids)
        /\ IsPrefix(prev.asks, last.asks)

C10_Witness ==
    /\ C10_Case(prev, last)
    /\ Len(prev.bids) >= 1
    /\ Len(last.bids) > Len(prev.bids)

\* ------------------------------------------------------------------------
\* C11: for a non-degenerate pool, fee_rate in [0, 1) and size_step > 0,
\* calculate_amm_price_levels returns num_levels levels per side.
\* ------------------------------------------------------------------------
C11_Case(c) ==
    /\ IsLevels(c)
    /\ ValidPool /\ ValidFee(c.fee_rate)
    /\ RPos(c.size_step)
    /\ c.num_levels >= 1

\* rung j leaves the pool some token0: reserve0 - reserve0*size_step*j > 0
DepthOk(c, j) ==
    RPos(RSub(reserve0, RMul(RMul(reserve0, c.size_step), Int2Rat(j))))

\* the number of rungs before the first one that exhausts the pool
C11_Depth(c) ==
    IF \A j \in 1 .. c.num_levels : DepthOk(c, j)
    THEN c.num_levels
    ELSE (CHOOSE i \in 1 .. c.num_levels :
              /\ ~DepthOk(c, i)
              /\ \A j \in 1 .. i - 1 : DepthOk(c, j)) - 1

C12_Emits(c, i) ==
    LET t == trade_size_of(reserve0, c.size_step, i)
    IN  \/ \E j \in 1 .. Len(c.asks) : c.asks[j][2] = t
        \/ \E j \in 1 .. Len(c.bids) : c.bids[j][2] = t

C12_Rungs(c) ==
    /\ \A i \in 1 .. c.num_levels :
          C12_Emits(c, i) => \A j \in 1 .. i : DepthOk(c, j)
    /\ \A i \in 1 .. c.num_levels :
          ~DepthOk(c, i) => \A j \in i .. c.num_levels : ~C12_Emits(c, j)
    /\ \A j \in 1 .. Len(c.asks) : RLt(c.asks[j][2], reserve0)
    /\ \A j \in 1 .. Len(c.bids) : RLt(c.bids[j][2], reserve0)
    /\ Len(c.bids) = Len(c.asks)
    /\ Len(c.bids) <= c.num_levels

C12_StepInRange(c) ==
    /\ c.num_levels >= 1
    /\ RPos(c.size_step) /\ RLt(c.size_step, One)

\* C12 as stated: at least one level whenever num_levels >= 1 and
\* 0 < size_step < 1, whatever the pool
C12_DepthGuardAnyPool ==
    IsLevels(last) =>
        /\ C12_Rungs(last)
        /\ (C12_StepInRange(last) => Len(last.bids) >= 1)

\* C12 amended: the rungs are emitted as stated; the book has at least
\* one level per side when the pool is non-degenerate, fee_rate is in
\* [0, 1), num_levels >= 1 and 0 < size_step < 1
C12_DepthGuard ==
    IsLevels(last) =>
        /\ C12_Rungs(last)
        /\ (C12_StepInRange(last) /\ ValidPool /\ ValidFee(last.fee_rate)
                => last.kind = "ok" /\ Len(last.bids) >= 1)

C12_Witness ==
    /\ IsLevels(last) /\ last.kind = "ok"
    /\ C12_StepInRange(last) /\ ValidPool
    /\ last.num_levels = 3
    /\ ~DepthOk(last, 2)
    /\ Len(last.bids) = 1 /\ Len(last.asks) = 1

\* ------------------------------------------------------------------------
\* C13: every simulated post-trade state is on the caller's curve
\* reserve0 * reserve1 = k, in amm_execution_price (both directions) and in
\* every rung of calculate_amm_price_levels; the caller's reserves are
\* never modified.
\* ------------------------------------------------------------------------
C13_K == RMul(reserve0, reserve1)

C13_ExecOnCurve ==
    (IsExec(last) /\ last.kind \in {"num", "inf"}) =>
        /\ Len(sims.exec) = 1
        /\ RMul(sims.exec[1][1], sims.exec[1][2]) = C13_K
        /\ LET adj == RMul(last.amount_in, OneMinus(last.fee_rate))
           IN  IF last.is_buy
               THEN sims.exec[1][2] = RAdd(reserve1, adj)
               ELSE sims.exec[1][1] = RAdd(reserve0, adj)

C13_RungsOnCurve ==
    (IsLevels(last) /\ last.kind = "ok") =>
        /\ Len(sims.ask) = Len(last.asks)
        /\ Len(sims.bid) = Len(last.bids)
        /\ \A i \in 1 .. Len(sims.ask) :
              LET t == trade_size_of(reserve0, last.size_step, i)
              IN  /\ sims.ask[i][1] = RSub(reserve0, t)
                  /\ RMul(RSub(reserve0, t), sims.ask[i][2]) = C13_K
        /\ \A i \in 1 .. Len(sims.bid) :
              LET t == trade_size_of(reserve0, last.size_step, i)
              IN  /\ sims.bid[i][1] =
                         RAdd(reserve0, RMul(t, OneMinus(last.fee_rate)))
                  /\ RMul(RAdd(reserve0, RMul(t, OneMinus(last.fee_rate))),
                          sims.bid[i][2]) = C13_K

MantissaBits    == 8
MaxFloatReserve == 12

RECURSIVE Pow2(_)
Pow2(k) == IF k = 0 THEN 1 ELSE 2 * Pow2(k - 1)

RNeg(a) == <<-a[1], a[2]>>
RAbs(a) == <<Abs(a[1]), a[2]>>

\* n/d > 0 scaled by a power of two into [2^(p-1), 2^p), rounded to an
\* integer mantissa (half to even), and scaled back: e counts the halvings
RECURSIVE FlScale(_, _, _)
FlScale(n, d, e) ==
    IF n < Pow2(MantissaBits - 1) * d THEN FlScale(2 * n, d, e - 1)
    ELSE IF n >= Pow2(MantissaBits) * d THEN FlScale(n, 2 * d, e + 1)
    ELSE LET m   == n \div d
             rem == n - m * d
             up  == 2 * rem > d \/ (2 * rem = d /\ m % 2 = 1)
             mm  == IF up THEN m + 1 ELSE m
         IN  IF e >= 0 THEN Rat(mm * Pow2(e), 1) ELSE Rat(mm, Pow2(-e))

\* the float nearest to the rational q
Fl(q) ==
    IF RIsZero(q) THEN Zero
    ELSE IF RPos(q) THEN FlScale(q[1], q[2], 0)
    ELSE RNeg(FlScale(-q[1], q[2], 0))

\* a / b and a * b on floats (b # 0)
fl_div(a, b) == Fl(RDiv(a, b))
fl_mul(a, b) == Fl(RMul(a, b))

\* Slip: floor division (reserve1 // reserve0)
amm_spot_price_floor_div(r0, r1) ==
    IF RIsZero(r0)
    THEN Raise("ValueError: reserve0 is zero")
    ELSE LET q == RDiv(r1, r0)
         IN  Num(Int2Rat(q[1] \div q[2]))

\* amm_spot_price on floats
amm_spot_price_float(r0, r1) ==
    IF RIsZero(r0)
    THEN Raise("ValueError: reserve0 is zero")
    ELSE Num(fl_div(r1, r0))

FloatReserves == {Int2Rat(n) : n \in 0 .. MaxFloatReserve}

InitFloat ==
    /\ reserve0 \in FloatReserves
    /\ reserve1 \in FloatReserves
    /\ prev = NoCall
    /\ last = NoCall
    /\ sims = NoSims
    /\ OthersParked

\* price_a_in_b = amm_spot_price(r0, r1)
FloatSpotPrice ==
    /\ last = NoCall
    /\ LET r == amm_spot_price_float(reserve0, reserve1)
       IN  Record(Call("amm_spot_price", Zero, Zero, FALSE, 0, Zero,
                       r.kind, r.val, <<>>, <<>>))
    /\ sims' = NoSims

\* price_b_in_a = amm_spot_price(r1, r0), after the call above
FloatSpotPriceFlipped ==
    /\ last # NoCall
    /\ LET r == amm_spot_price_float(reserve1, reserve0)
       IN  Record(Call("amm_spot_price", Zero, Zero, FALSE, 0, Zero,
                       r.kind, r.val, <<>>, <<>>))
    /\ sims' = NoSims

NextFloat == FloatSpotPrice \/ FloatSpotPriceFlipped

SpecFloat == InitFloat /\ [][NextFloat]_vars

\* ------------------------------------------------------------------------
\* C15: for all reserve0 > 0 and reserve1 > 0,
\* amm_spot_price(reserve0, reserve1) * amm_spot_price(reserve1, reserve0)
\* = 1.
\* ------------------------------------------------------------------------
\* both prices have been computed: prev on (r0, r1), last on (r1, r0)
C15_Case ==
    /\ ValidPool
    /\ IsSpot(prev) /\ IsSpot(last)

C15_Product == fl_mul(prev.val, last.val)

\* one unit in the mantissa's last place per rounding, three roundings
C15_Tolerance == Rat(4, Pow2(MantissaBits))

\* C15 as stated: the product of the two prices is exactly 1
C15_ExactInverse ==
    C15_Case =>
        /\ prev.kind = "num" /\ last.kind = "num"
        /\ C15_Product = One

\* C15 amended: the product of the two prices is 1 up to the rounding of
\* the two divisions and of the multiplication
C15_InverseWithinRounding ==
    C15_Case =>
        /\ prev.kind = "num" /\ last.kind = "num"
        /\ RLe(RAbs(RSub(C15_Product, One)), C15_Tolerance)

C15_Witness ==
    /\ C15_Case
    /\ reserve0 # reserve1
    /\ C15_Product # One

\* ========================================================================
\* The A2A envelope (brainstorming_evomap/envelope.py)
\* ========================================================================
\* A dict is a function from its keys; None is the string "None".
PROTOCOL         == "gep-a2a"
PROTOCOL_VERSION == "1.0.0"
None             == "None"
EmptyDict        == [k \in {} |-> None]

DictSet(d, k, v) == [j \in DOMAIN d \cup {k} |-> IF j = k THEN v ELSE d[j]]
DictDel(d, k)    == [j \in DOMAIN d \ {k} |-> d[j]]

\* Slip: a supplied message_id is ignored, one is always generated
build_envelope_always_generates(message_type, sender_id, payload, message_id, timestamp, generated_id, now) ==
    [protocol         |-> PROTOCOL,
     protocol_version |-> PROTOCOL_VERSION,
     message_type     |-> message_type,
     message_id       |-> generated_id,
     sender_id        |-> sender_id,
     timestamp        |-> IF timestamp = None THEN now ELSE timestamp,
     payload          |-> payload]

\* build_envelope; generated_id is what generate_message_id() returns and
\* now what datetime.now(timezone.utc).isoformat() returns at the call
build_envelope(message_type, sender_id, payload, message_id, timestamp, generated_id, now) ==
    [protocol         |-> PROTOCOL,
     protocol_version |-> PROTOCOL_VERSION,
     message_type     |-> message_type,
     message_id       |-> IF message_id = None THEN generated_id
                          ELSE message_id,
     sender_id        |-> sender_id,
     timestamp        |-> IF timestamp = None THEN now ELSE timestamp,
     payload          |-> payload]

required_fields ==
    <<"protocol", "protocol_version", "message_type", "message_id",
      "sender_id", "timestamp", "payload">>

\* the error strings, by their parts
MissingError(field)      == <<"Missing required field", field>>
ProtocolError(got)       == <<"Invalid protocol", PROTOCOL, got>>
VersionError(got)        == <<"Invalid protocol_version", PROTOCOL_VERSION, got>>

\* for field in required_fields: if field not in envelope: errors.append
RECURSIVE missing_errors(_, _)
missing_errors(envelope, i) ==
    IF i > Len(required_fields) THEN <<>>
    ELSE (IF required_fields[i] \notin DOMAIN envelope
          THEN <<MissingError(required_fields[i])>>
          ELSE <<>>) \o missing_errors(envelope, i + 1)

\* Slip: envelope.get("protocol") != PROTOCOL, an absent protocol is
\* reported as invalid too
validate_envelope_get_protocol(envelope) ==
    LET protocol_errors ==
            IF "protocol" \notin DOMAIN envelope
            THEN <<ProtocolError(None)>>
            ELSE IF envelope["protocol"] # PROTOCOL
            THEN <<ProtocolError(envelope["protocol"])>>
            ELSE <<>>
        version_errors ==
            IF /\ "protocol_version" \in DOMAIN envelope
               /\ envelope["protocol_version"] # PROTOCOL_VERSION
            THEN <<VersionError(envelope["protocol_version"])>>
            ELSE <<>>
        errors == missing_errors(envelope, 1) \o protocol_errors
                      \o version_errors
    IN  <<Len(errors) = 0, errors>>

\* validate_envelope: (is_valid, errors)
validate_envelope(envelope) ==
    LET protocol_errors ==
            IF /\ "protocol" \in DOMAIN envelope
               /\ envelope["protocol"] # PROTOCOL
            THEN <<ProtocolError(envelope["protocol"])>>
            ELSE <<>>
        version_errors ==
            IF /\ "protocol_version" \in DOMAIN envelope
               /\ envelope["protocol_version"] # PROTOCOL_VERSION
            THEN <<VersionError(envelope["protocol_version"])>>
            ELSE <<>>
        errors == missing_errors(envelope, 1) \o protocol_errors
                      \o version_errors
    IN  <<Len(errors) = 0, errors>>

\* The values a caller puts in an envelope
MessageTypes == {"publish", "fetch"}
SenderIds    == {"node_a"}
Payloads     == {EmptyDict, [assets |-> "bundle"]}
MessageIds   == {"msg_1"}
Timestamps   == {"2025-01-01T00:00:00+00:00"}
GeneratedIds == {"msg_uuid_1", "msg_uuid_2"}
Clock        == {"2025-06-01T12:00:00+00:00"}

EnvelopeKeys == {required_fields[i] : i \in 1 .. Len(required_fields)} \cup {"trace"}
KeyValues(k) ==
    CASE k = "protocol"         -> {PROTOCOL, "gep-a2b"}
      [] k = "protocol_version" -> {PROTOCOL_VERSION, "0.9.0"}
      [] k = "message_type"     -> {"publish"}
      [] k = "message_id"       -> {"msg_1"}
      [] k = "sender_id"        -> {"node_a"}
      [] k = "timestamp"        -> {"2025-01-01T00:00:00+00:00"}
      [] k = "payload"          -> {EmptyDict}
      [] OTHER                  -> {"t-1"}

NoArgs   == [message_type |-> None, sender_id |-> None, payload |-> EmptyDict, message_id |-> None, timestamp |-> None]
NoResult == <<FALSE, <<"not validated">>>>

\* env: the envelope at hand, whether it is as build_envelope returned it
\* (and from which arguments), and the result of validating it, if any
EnvState(envelope, built, args, validated, result) ==
    [envelope |-> envelope, built |-> built, args |-> args, validated |-> validated, result |-> result]

AmmParked ==
    /\ reserve0 = One /\ reserve1 = One
    /\ prev = NoCall /\ last = NoCall /\ sims = NoSims

InitEnvelope ==
    /\ AmmParked
    /\ env = EnvState(EmptyDict, FALSE, NoArgs, FALSE, NoResult)
    /\ bundle = "parked" /\ prov = "parked"
    /\ strat = "parked" /\ tickOut = "parked"
    /\ RestParked

EnvelopeOnly == UNCHANGED <<ammVars, bundle, prov, strat, tickOut, restVars>>

\* envelope = build_envelope(...)
BuildEnvelope ==
    \E message_type \in MessageTypes, sender_id \in SenderIds, payload \in Payloads, message_id \in MessageIds \cup {None}, timestamp \in Timestamps \cup {None}, generated_id \in GeneratedIds, now \in Clock :
        /\ env' = EnvState(build_envelope(message_type, sender_id, payload, message_id, timestamp, generated_id, now),
                           TRUE,
                           [message_type |-> message_type, sender_id |-> sender_id, payload |-> payload, message_id |-> message_id, timestamp |-> timestamp],
                           FALSE, NoResult)
        /\ EnvelopeOnly

\* the caller writes a key of the dict: envelope[k] = v
SetKey ==
    \E k \in EnvelopeKeys : \E v \in KeyValues(k) :
        /\ env' = EnvState(DictSet(env.envelope, k, v), FALSE, env.args, FALSE, NoResult)
        /\ EnvelopeOnly

\* the caller removes a key: del envelope[k]
DelKey ==
    \E k \in DOMAIN env.envelope :
        /\ env' = EnvState(DictDel(env.envelope, k), FALSE, env.args, FALSE, NoResult)
        /\ EnvelopeOnly

\* is_valid, errors = validate_envelope(envelope)
ValidateEnvelope ==
    /\ ~env.validated
    /\ env' = [env EXCEPT !.validated = TRUE,
                          !.result = validate_envelope(env.envelope)]
    /\ EnvelopeOnly

NextEnvelope == BuildEnvelope \/ SetKey \/ DelKey \/ ValidateEnvelope

SpecEnvelope == InitEnvelope /\ [][NextEnvelope]_vars

\* ------------------------------------------------------------------------
\* C16: validate_envelope(build_envelope(...)) = (True, []) for every
\* choice of arguments, message_id and timestamp supplied or generated; the
\* built envelope has the seven required fields, protocol 'gep-a2a',
\* protocol_version '1.0.0', and carries a supplied message_id, timestamp
\* and payload unchanged.
\* ------------------------------------------------------------------------
RequiredKeys == {required_fields[i] : i \in 1 .. Len(required_fields)}

C16_BuiltShape ==
    env.built =>
        /\ DOMAIN env.envelope = RequiredKeys
        /\ env.envelope["protocol"] = "gep-a2a"
        /\ env.envelope["protocol_version"] = "1.0.0"
        /\ env.envelope["message_type"] = env.args.message_type
        /\ env.envelope["sender_id"] = env.args.sender_id
        /\ env.envelope["payload"] = env.args.payload
        /\ (env.args.message_id # None
                => env.envelope["message_id"] = env.args.message_id)
        /\ (env.args.timestamp # None
                => env.envelope["timestamp"] = env.args.timestamp)

\* C16: an envelope as build_envelope returned it has the stated shape and
\* validates to (True, [])
C16_BuiltEnvelopeValidates ==
    /\ C16_BuiltShape
    /\ (env.built /\ env.validated => env.result = <<TRUE, <<>>>>)

C16_Witness ==
    /\ env.built /\ env.validated
    /\ env.args.message_id = None /\ env.args.timestamp # None
    /\ env.envelope["message_id"] \in GeneratedIds
    /\ env.args.payload # EmptyDict

\* ------------------------------------------------------------------------
\* C17: validate_envelope returns is_valid = True exactly when the error
\* list is empty; the list holds one 'Missing required field' entry per
\* absent required field, an 'Invalid protocol' entry iff protocol is
\* present and not 'gep-a2a', an 'Invalid protocol_version' entry iff that
\* field is present and not '1.0.0', and nothing else; the envelope is not
\* modified.
\* ------------------------------------------------------------------------
C17_Count(errors, e) == Cardinality({i \in 1 .. Len(errors) : errors[i] = e})
C17_CountKind(errors, kind) == Cardinality({i \in 1 .. Len(errors) : errors[i][1] = kind})

C17_Errors ==
    env.validated =>
        LET envelope == env.envelope
            is_valid == env.result[1]
            errors   == env.result[2]
        IN  /\ is_valid <=> errors = <<>>
            /\ \A f \in RequiredKeys :
                  C17_Count(errors, <<"Missing required field", f>>) =
                      IF f \in DOMAIN envelope THEN 0 ELSE 1
            /\ C17_CountKind(errors, "Invalid protocol") =
                  IF "protocol" \in DOMAIN envelope /\ envelope["protocol"] # "gep-a2a"
                  THEN 1 ELSE 0
            /\ C17_CountKind(errors, "Invalid protocol_version") =
                  IF "protocol_version" \in DOMAIN envelope /\ envelope["protocol_version"] # "1.0.0"
                  THEN 1 ELSE 0
            /\ Len(errors) =
                  Cardinality(RequiredKeys \ DOMAIN envelope)
                  + C17_CountKind(errors, "Invalid protocol")
                  + C17_CountKind(errors, "Invalid protocol_version")

\* C17: the result of a validation is as stated, and validating leaves the
\* envelope as it was
C17_ValidationResult ==
    /\ []C17_Errors
    /\ [][~env.validated /\ env'.validated => env'.envelope = env.envelope]_vars

C17_Witness ==
    /\ env.validated /\ ~env.built
    /\ "protocol" \in DOMAIN env.envelope /\ env.envelope["protocol"] # "gep-a2a"
    /\ "protocol_version" \notin DOMAIN env.envelope
    /\ "payload" \notin DOMAIN env.envelope
    /\ "trace" \in DOMAIN env.envelope
    /\ Len(env.result[2]) = 3

\* ========================================================================
\* The capsule mapper (brainstorming_evomap/capsule_mapper.py)
\* ========================================================================
\* A str is the sequence of its characters, so that f-strings concatenate
\* and content[:n] slices.  A value inside metadata or a decision is
\* <<"json", v>> when json.dumps can serialise it and <<"object", type>>
\* when it cannot (a set, a datetime).  An optional argument is a record
\* saying whether None was passed.
PreviewChars    == 500
DocPreviewChars == 1000

NoneArg   == [is_none |-> TRUE,  value |-> EmptyDict]
Given(v)  == [is_none |-> FALSE, value |-> v]

GENE_PREFIX    == <<"g", "e", "n", "e", "_">>
CAPSULE_PREFIX == <<"c", "a", "p", "s", "u", "l", "e", "_">>
EVENT_PREFIX   == <<"e", "v", "e", "n", "t", "_">>
DESIGN_FINAL   == <<"d", "e", "s", "i", "g", "n", "_", "f", "i", "n", "a", "l">>
Underscore     == <<"_">>

\* json.dumps(data) raises TypeError on a value it cannot serialise
DictSerializable(d) == \A k \in DOMAIN d : d[k][1] = "json"
ListSerializable(l) == \A i \in 1 .. Len(l) : DictSerializable(l[i])

\* compute_content_hash of serialisable data: the SHA-256 digest of the
\* canonical JSON text (keys sorted), as the digest of the data itself;
\* two dicts with the same items have the same digest, different data
\* are taken to have different digests
compute_content_hash(data) == <<"sha256", data>>

Raised(e)   == [raised |-> e, value |-> EmptyDict]
Returned(v) == [raised |-> "none", value |-> v]

\* Slip: the capsule refers to the section, not to the gene
map_section_delta_section_ref(session_id, section_id, content, metadata) ==
    LET md          == IF metadata.is_none THEN EmptyDict ELSE metadata.value
        gene_id     == GENE_PREFIX \o session_id \o Underscore \o section_id
        capsule_id  == CAPSULE_PREFIX \o session_id \o Underscore \o section_id
        event_id    == EVENT_PREFIX \o session_id \o Underscore \o section_id
        gene == [id |-> gene_id, type |-> "gene",
                 content_hash |-> compute_content_hash([content |-> content, metadata |-> md]),
                 data |-> [section |-> section_id,
                           content_preview |-> IF Len(content) > PreviewChars THEN SubSeq(content, 1, PreviewChars) ELSE content,
                           metadata |-> md]]
        capsule == [id |-> capsule_id, type |-> "capsule",
                    content_hash |-> compute_content_hash([genes |-> <<gene_id>>, session |-> session_id]),
                    data |-> [session_id |-> session_id, section_id |-> section_id, gene_refs |-> <<section_id>>]]
        evolution_event == [id |-> event_id, type |-> "evolution_event",
                            content_hash |-> compute_content_hash([capsule |-> capsule_id, action |-> "section_delta"]),
                            data |-> [capsule_ref |-> capsule_id, action |-> "section_delta", session_id |-> session_id]]
    IN  IF ~DictSerializable(md) THEN Raised("TypeError")
        ELSE Returned([assets |-> <<gene, capsule, evolution_event>>,
                       metadata |-> [session_id |-> session_id, section_id |-> section_id, bundle_type |-> "brainstorming_delta"]])

\* map_section_delta
map_section_delta(session_id, section_id, content, metadata) ==
    LET md          == IF metadata.is_none THEN EmptyDict ELSE metadata.value
        gene_id     == GENE_PREFIX \o session_id \o Underscore \o section_id
        capsule_id  == CAPSULE_PREFIX \o session_id \o Underscore \o section_id
        event_id    == EVENT_PREFIX \o session_id \o Underscore \o section_id
        gene == [id |-> gene_id, type |-> "gene",
                 content_hash |-> compute_content_hash([content |-> content, metadata |-> md]),
                 data |-> [section |-> section_id,
                           content_preview |-> IF Len(content) > PreviewChars THEN SubSeq(content, 1, PreviewChars) ELSE content,
                           metadata |-> md]]
        capsule == [id |-> capsule_id, type |-> "capsule",
                    content_hash |-> compute_content_hash([genes |-> <<gene_id>>, session |-> session_id]),
                    data |-> [session_id |-> session_id, section_id |-> section_id, gene_refs |-> <<gene_id>>]]
        evolution_event == [id |-> event_id, type |-> "evolution_event",
                            content_hash |-> compute_content_hash([capsule |-> capsule_id, action |-> "section_delta"]),
                            data |-> [capsule_ref |-> capsule_id, action |-> "section_delta", session_id |-> session_id]]
    IN  IF ~DictSerializable(md) THEN Raised("TypeError")
        ELSE Returned([assets |-> <<gene, capsule, evolution_event>>,
                       metadata |-> [session_id |-> session_id, section_id |-> section_id, bundle_type |-> "brainstorming_delta"]])

\* map_design_doc
map_design_doc(session_id, design_doc_path, content, decisions) ==
    LET ds          == IF decisions.is_none THEN <<>> ELSE decisions.value
        gene_id     == GENE_PREFIX \o session_id \o Underscore \o DESIGN_FINAL
        capsule_id  == CAPSULE_PREFIX \o session_id \o Underscore \o DESIGN_FINAL
        event_id    == EVENT_PREFIX \o session_id \o Underscore \o DESIGN_FINAL
        gene == [id |-> gene_id, type |-> "gene",
                 content_hash |-> compute_content_hash([content |-> content]),
                 data |-> [type |-> "design_document", path |-> design_doc_path,
                           content_preview |-> IF Len(content) > DocPreviewChars THEN SubSeq(content, 1, DocPreviewChars) ELSE content]]
        capsule == [id |-> capsule_id, type |-> "capsule",
                    content_hash |-> compute_content_hash([genes |-> <<gene_id>>, decisions |-> ds]),
                    data |-> [session_id |-> session_id, type |-> "final_design", gene_refs |-> <<gene_id>>, decision_count |-> Len(ds)]]
        evolution_event == [id |-> event_id, type |-> "evolution_event",
                            content_hash |-> compute_content_hash([capsule |-> capsule_id, action |-> "design_finalized"]),
                            data |-> [capsule_ref |-> capsule_id, action |-> "design_finalized", session_id |-> session_id, decisions |-> ds]]
    IN  IF ~ListSerializable(ds) THEN Raised("TypeError")
        ELSE Returned([assets |-> <<gene, capsule, evolution_event>>,
                       metadata |-> [session_id |-> session_id, bundle_type |-> "final_design", doc_path |-> design_doc_path]])

\* The arguments of the callers
SessionIds == {<<"s", "1">>, <<"s", "_", "2">>, <<>>}
SectionIds == {<<"a", "r", "c", "h">>, <<"t", "e", "s", "t">>}
DocPaths   == {<<"d", ".", "m", "d">>, <<"/", "x">>}
Contents   == {<<>>, <<"c", "o", "n", "t", "e", "n", "t">>, [i \in 1 .. DocPreviewChars + 1 |-> "x"]}
Metadatas  ==
    {NoneArg, Given(EmptyDict),
     Given([approaches |-> <<"json", "REST, gRPC">>]),
     Given([approaches |-> <<"json", "REST, gRPC">>, reviewed_at |-> <<"object", "datetime">>])}
Decisions  ==
    {NoneArg, Given(<<>>),
     Given(<<[decision |-> <<"json", "use REST">>], [decision |-> <<"json", "no cache">>]>>),
     Given(<<[decision |-> <<"json", "use REST">>, tags |-> <<"object", "set">>]>>)}

NoMapping == [fn |-> "none", session_id |-> <<>>, section_id |-> <<>>, design_doc_path |-> <<>>, content |-> <<>>, metadata |-> NoneArg, decisions |-> NoneArg, out |-> Raised("none")]

InitMapper ==
    /\ AmmParked
    /\ bundle = NoMapping
    /\ env = "parked" /\ prov = "parked"
    /\ strat = "parked" /\ tickOut = "parked"
    /\ RestParked

MapperOnly == UNCHANGED <<ammVars, env, prov, strat, tickOut, restVars>>

\* bundle = map_section_delta(session_id, section_id, content, metadata)
MapSectionDelta ==
    \E session_id \in SessionIds, section_id \in SectionIds, content \in Contents, metadata \in Metadatas :
        /\ bundle' = [NoMapping EXCEPT !.fn = "map_section_delta",
                          !.session_id = session_id, !.section_id = section_id,
                          !.content = content, !.metadata = metadata,
                          !.out = map_section_delta(session_id, section_id, content, metadata)]
        /\ MapperOnly

\* bundle = map_design_doc(session_id, design_doc_path, content, decisions)
MapDesignDoc ==
    \E session_id \in SessionIds, design_doc_path \in DocPaths, content \in Contents, decisions \in Decisions :
        /\ bundle' = [NoMapping EXCEPT !.fn = "map_design_doc",
                          !.session_id = session_id, !.design_doc_path = design_doc_path,
                          !.content = content, !.decisions = decisions,
                          !.out = map_design_doc(session_id, design_doc_path, content, decisions)]
        /\ MapperOnly

NextMapper == MapSectionDelta \/ MapDesignDoc

SpecMapper == InitMapper /\ [][NextMapper]_vars

\* ------------------------------------------------------------------------
\* C18: for every session_id, section_id, content and metadata,
\* map_section_delta returns three assets in the order gene, capsule,
\* evolution_event; the capsule's gene_refs is [gene id], the event's
\* capsule_ref is the capsule id, every asset has a content_hash, the
\* bundle metadata echoes session_id and section_id; map_design_doc
\* returns the same shape with bundle_type 'final_design' and the given
\* doc_path.
\* ------------------------------------------------------------------------
C18_Shape(b) ==
    LET assets == b.assets
    IN  /\ Len(assets) = 3
        /\ assets[1].type = "gene"
        /\ assets[2].type = "capsule"
        /\ assets[3].type = "evolution_event"
        /\ assets[2].data.gene_refs = <<assets[1].id>>
        /\ assets[3].data.capsule_ref = assets[2].id
        /\ \A i \in 1 .. 3 : "content_hash" \in DOMAIN assets[i]

C18_DeltaOk(c) ==
    /\ c.out.raised = "none"
    /\ C18_Shape(c.out.value)
    /\ c.out.value.metadata.session_id = c.session_id
    /\ c.out.value.metadata.section_id = c.section_id

C18_DesignOk(c) ==
    /\ c.out.raised = "none"
    /\ C18_Shape(c.out.value)
    /\ c.out.value.metadata.bundle_type = "final_design"
    /\ c.out.value.metadata.doc_path = c.design_doc_path

C18_Serializable(c) ==
    /\ c.metadata.is_none \/ DictSerializable(c.metadata.value)
    /\ c.decisions.is_none \/ ListSerializable(c.decisions.value)

\* C18 as stated: every call returns a bundle of the stated shape
C18_BundleForEveryInput ==
    /\ bundle.fn = "map_section_delta" => C18_DeltaOk(bundle)
    /\ bundle.fn = "map_design_doc" => C18_DesignOk(bundle)

\* C18 amended: every call whose metadata (whose decisions) json.dumps
\* can serialise returns a bundle of the stated shape
C18_BundleForSerializableInput ==
    /\ (bundle.fn = "map_section_delta" /\ C18_Serializable(bundle)) => C18_DeltaOk(bundle)
    /\ (bundle.fn = "map_design_doc" /\ C18_Serializable(bundle)) => C18_DesignOk(bundle)

C18_Witness ==
    /\ bundle.fn = "map_section_delta"
    /\ ~bundle.metadata.is_none
    /\ bundle.metadata.value # EmptyDict
    /\ C18_Serializable(bundle)
    /\ Len(bundle.content) > PreviewChars
    /\ bundle.out.raised = "none"

\* ========================================================================
\* The instrument provider (nt-dex-adapter/templates/dex_instrument_provider.py)
\* ========================================================================
\* Dicts are objects: the heap maps the address of every live dict to its
\* content, so that two names for one dict and two dicts with one content
\* differ.  The provider's own dict self._instruments is at SelfDict.
MaxCopies == 2
SelfDict  == 0

VENUE == "MYDEX"

InstrumentId(token0_symbol, token1_symbol) ==
    [symbol |-> <<token0_symbol, "-", token1_symbol>>, venue |-> VENUE]

\* _parse_pool_to_instrument: the CurrencyPair, by the fields that depend
\* on the pool
parse_pool_to_instrument(pool_metadata) ==
    LET fee_rate == Rat(pool_metadata.fee, 1000000)
    IN  [instrument_id  |-> InstrumentId(pool_metadata.token0_symbol, pool_metadata.token1_symbol),
         raw_symbol     |-> <<pool_metadata.token0_symbol, "-", pool_metadata.token1_symbol>>,
         quote_currency |-> pool_metadata.token1_symbol,
         min_quantity   |-> pool_metadata.min_trade_size,
         maker_fee      |-> fee_rate,
         taker_fee      |-> fee_rate]

\* the metadata _load_sandbox_instruments parses
SandboxMetadata == [token0_symbol |-> "WETH", token1_symbol |-> "USDC", fee |-> 3000, min_trade_size |-> "0.001"]

\* _load_sandbox_instruments
load_sandbox_instruments(instruments) ==
    LET test_instrument == parse_pool_to_instrument(SandboxMetadata)
    IN  DictSet(instruments, test_instrument.instrument_id, test_instrument)

\* What the chain answers.  _fetch_all_pool_addresses, _fetch_pool_metadata
\* and _symbol_to_address raise NotImplementedError as written and are to
\* be implemented over an RPC client: a call raises or returns.
PoolMetadatas ==
    {SandboxMetadata,
     [token0_symbol |-> "WBTC", token1_symbol |-> "USDC", fee |-> 500, min_trade_size |-> "0.0001"]}
FetchOutcomes ==
    {[raises |-> TRUE, pool_metadata |-> SandboxMetadata]}
        \cup {[raises |-> FALSE, pool_metadata |-> m] : m \in PoolMetadatas}
LookupOutcomes == {"raises", "None", "address"}

\* load_all_async with sandbox_mode off: the loop over pool_addresses; a
\* pool whose fetch raises is skipped
RECURSIVE load_pools(_, _, _, _)
load_pools(instruments, pool_addresses, fetched, i) ==
    IF i > Len(pool_addresses) THEN instruments
    ELSE IF fetched[i].raises
    THEN load_pools(instruments, pool_addresses, fetched, i + 1)
    ELSE LET instrument == parse_pool_to_instrument(fetched[i].pool_metadata)
         IN  load_pools(DictSet(instruments, instrument.instrument_id, instrument),
                        pool_addresses, fetched, i + 1)

\* load_ids_async: the loop over instrument_ids; an exception ends it
RECURSIVE load_ids(_, _, _, _, _)
load_ids(instruments, instrument_ids, lookups, fetched, i) ==
    IF i > Len(instrument_ids) THEN instruments
    ELSE IF instrument_ids[i] \in DOMAIN instruments
    THEN load_ids(instruments, instrument_ids, lookups, fetched, i + 1)
    ELSE IF lookups[i] = "raises" THEN instruments
    ELSE IF lookups[i] = "None"
    THEN load_ids(instruments, instrument_ids, lookups, fetched, i + 1)
    ELSE IF fetched[i].raises THEN instruments
    ELSE LET instrument == parse_pool_to_instrument(fetched[i].pool_metadata)
         IN  load_ids(DictSet(instruments, instrument.instrument_id, instrument),
                      instrument_ids, lookups, fetched, i + 1)

\* Slip: get_all returns self._instruments itself
get_all_no_copy(heap, held) == <<heap, SelfDict>>

\* get_all: a new dict with the items of self._instruments; the new heap
\* and the address returned
get_all(heap, held) ==
    LET a == CHOOSE x \in 1 .. MaxCopies : x \notin held
    IN  <<[x \in DOMAIN heap \cup {a} |-> IF x = a THEN heap[SelfDict] ELSE heap[x]], a>>

\* find: self._instruments.get(instrument_id); <<>> is None
find(instruments, instrument_id) ==
    IF instrument_id \in DOMAIN instruments
    THEN <<instruments[instrument_id]>>
    ELSE <<>>

\* The ids and instruments the callers use
KnownIds   == {parse_pool_to_instrument(m).instrument_id : m \in PoolMetadatas}
CallerIds  == KnownIds \cup {InstrumentId("DOGE", "USDC")}
CallerInstruments == {parse_pool_to_instrument(SandboxMetadata)}
IdLists    == {<<a>> : a \in CallerIds} \cup {<<a, b>> : a, b \in KnownIds}
Configs    == [sandbox_mode : BOOLEAN, pools : {<<>>, <<"0xA", "0xB">>}]

\* prov: the provider (its config, the heap with its dict), the dicts the
\* callers hold, the last operation with what it returned, and what the
\* loads have stored so far
ProvState(config, heap, held, loaded, op, ret, arg, found) ==
    [config |-> config, heap |-> heap, held |-> held, loaded |-> loaded, op |-> op, ret |-> ret, arg |-> arg, found |-> found]

NoId == InstrumentId("", "")

\* the provider after an operation op that returned nothing
After(p, op) == [p EXCEPT !.op = op, !.ret = SelfDict, !.arg = NoId, !.found = <<>>]

InitProvider ==
    /\ AmmParked
    /\ \E config \in Configs :
          prov = ProvState(config, [x \in {SelfDict} |-> EmptyDict], {}, EmptyDict, "init", SelfDict, NoId, <<>>)
    /\ env = "parked" /\ bundle = "parked"
    /\ strat = "parked" /\ tickOut = "parked"
    /\ RestParked

ProviderOnly == UNCHANGED <<ammVars, env, bundle, strat, tickOut, restVars>>

\* a load has left self._instruments as instruments; loaded is the same
\* load applied to what the loads before it had stored
Stored(instruments, loaded, op) ==
    /\ prov' = [After(prov, op) EXCEPT !.heap[SelfDict] = instruments,
                                       !.loaded = loaded]
    /\ ProviderOnly

\* await provider.load_all_async()
LoadAll ==
    \/ /\ prov.config.sandbox_mode
       /\ Stored(load_sandbox_instruments(prov.heap[SelfDict]),
                 load_sandbox_instruments(prov.loaded), "load_all_async")
    \/ /\ ~prov.config.sandbox_mode
       /\ \E listing \in {<<>>, <<"0xA">>, <<"0xB", "0xA">>}, listing_raises \in BOOLEAN :
             LET pool_addresses == IF prov.config.pools # <<>> THEN prov.config.pools ELSE listing
             IN  IF prov.config.pools = <<>> /\ listing_raises
                 THEN Stored(prov.heap[SelfDict], prov.loaded, "load_all_async")
                 ELSE \E fetched \in [1 .. Len(pool_addresses) -> FetchOutcomes] :
                          Stored(load_pools(prov.heap[SelfDict], pool_addresses, fetched, 1),
                                 load_pools(prov.loaded, pool_addresses, fetched, 1), "load_all_async")

\* await provider.load_ids_async(instrument_ids)
LoadIds ==
    \E instrument_ids \in IdLists :
        \E lookups \in [1 .. Len(instrument_ids) -> LookupOutcomes], fetched \in [1 .. Len(instrument_ids) -> FetchOutcomes] :
            Stored(load_ids(prov.heap[SelfDict], instrument_ids, lookups, fetched, 1),
                   load_ids(prov.loaded, instrument_ids, lookups, fetched, 1), "load_ids_async")

\* d = provider.get_all()
GetAll ==
    /\ Cardinality(prov.held) < MaxCopies
    /\ LET r == get_all(prov.heap, prov.held)
       IN  prov' = [After(prov, "get_all") EXCEPT
                        !.heap = r[1], !.held = prov.held \cup {r[2]},
                        !.ret = r[2]]
    /\ ProviderOnly

\* provider.find(instrument_id)
Find ==
    \E instrument_id \in CallerIds :
        /\ prov' = [After(prov, "find") EXCEPT
                        !.arg = instrument_id,
                        !.found = find(prov.heap[SelfDict], instrument_id)]
        /\ ProviderOnly

\* the caller adds to a dict it got from get_all: d[k] = v
CallerAdd ==
    \E a \in prov.held, k \in CallerIds, v \in CallerInstruments :
        /\ prov' = [After(prov, "add") EXCEPT !.heap[a] = DictSet(prov.heap[a], k, v)]
        /\ ProviderOnly

\* the caller removes from a dict it got from get_all: del d[k]
CallerRemove ==
    \E a \in prov.held : \E k \in DOMAIN prov.heap[a] :
        /\ prov' = [After(prov, "remove") EXCEPT !.heap[a] = DictDel(prov.heap[a], k)]
        /\ ProviderOnly

\* the caller lets go of a dict it got from get_all
CallerDrop ==
    \E a \in prov.held \ {SelfDict} :
        /\ prov' = [After(prov, "drop") EXCEPT
                        !.heap = [x \in DOMAIN prov.heap \ {a} |-> prov.heap[x]],
                        !.held = prov.held \ {a}]
        /\ ProviderOnly

NextProvider == LoadAll \/ LoadIds \/ GetAll \/ Find \/ CallerAdd \/ CallerRemove \/ CallerDrop

SpecProvider == InitProvider /\ [][NextProvider]_vars

\* ------------------------------------------------------------------------
\* C19: get_all returns a copy of the loaded instruments: after any
\* sequence of loads, adding to or removing from a dict returned by
\* get_all changes neither the result of a later get_all nor of find;
\* find(id) returns the loaded instrument when id was loaded and None
\* otherwise.
\* ------------------------------------------------------------------------
\* C19: whatever the callers did to the dicts they hold, get_all returns a
\* new dict with exactly the loaded instruments and find answers from the
\* loaded instruments
C19_GetAllIsACopy ==
    /\ prov.op = "get_all" =>
          /\ prov.ret # SelfDict
          /\ prov.heap[prov.ret] = prov.loaded
    /\ prov.op = "find" =>
          prov.found = IF prov.arg \in DOMAIN prov.loaded
                       THEN <<prov.loaded[prov.arg]>>
                       ELSE <<>>
    /\ prov.op \in {"add", "remove"} => prov.heap[SelfDict] = prov.loaded

C19_Witness ==
    /\ prov.op = "find"
    /\ prov.found # <<>>
    /\ Cardinality(DOMAIN prov.loaded) = 2
    /\ \E a \in prov.held : prov.arg \notin DOMAIN prov.heap[a]
    /\ \E a \in prov.held : InstrumentId("DOGE", "USDC") \in DOMAIN prov.heap[a]

\* ========================================================================
\* The multi-venue strategy (nt-strategy-builder/templates/multi_venue_strategy.py)
\* ========================================================================
\* Prices, mids and spreads are exact rationals.  An attribute that is
\* None or an object is a sequence of no or one element.
SpreadHistoryMaxLen == 100
MaxAppends          == 102

RMin(a, b) == IF RLt(b, a) THEN b ELSE a

PRIMARY_ID   == "BTCUSDT-PERP.BINANCE"
SECONDARY_ID == "BTCUSDT-PERP.BYBIT"
OTHER_ID     == "ETHUSDT-PERP.BINANCE"

QuoteTick(instrument_id, bid, ask) ==
    [instrument_id |-> instrument_id, bid_price |-> bid, ask_price |-> ask]

\* MultiVenueStrategyConfig with its defaults
StrategyConfig(trade_primary) ==
    [primary_instrument_id   |-> PRIMARY_ID,
     secondary_instrument_id |-> SECONDARY_ID,
     min_spread_bps          |-> Int2Rat(10),
     max_position_size       |-> One,
     trade_primary           |-> trade_primary]

\* the instrument the cache holds for an id
Instrument(instrument_id) == [id |-> instrument_id, size_precision |-> 3]

RECURSIVE Pow10(_)
Pow10(k) == IF k = 0 THEN 1 ELSE 10 * Pow10(k - 1)

\* instrument.make_qty(value): value >= 0 rounded to the size precision
make_qty(instrument, value) ==
    LET scale  == Pow10(instrument.size_precision)
        scaled == RMul(value, Int2Rat(scale))
        whole  == scaled[1] \div scaled[2]
        rem    == scaled[1] - whole * scaled[2]
        up     == 2 * rem > scaled[2] \/ (2 * rem = scaled[2] /\ whole % 2 = 1)
    IN  Rat(IF up THEN whole + 1 ELSE whole, scale)

\* deque(maxlen=100).append(x): the oldest entry goes when the deque is full
deque_append(d, x) ==
    IF Len(d) < SpreadHistoryMaxLen THEN Append(d, x)
    ELSE Append(Tail(d), x)

\* (ask + bid) / 2
mid_price(quote) == RDiv(RAdd(quote.ask_price, quote.bid_price), Int2Rat(2))

\* Slip: only the primary position is checked against the limit
can_trade_primary_only(config, primary_net, secondary_net) ==
    LET primary_pos == RAbs(primary_net)
    IN  IF RLe(config.max_position_size, primary_pos) THEN FALSE
        ELSE TRUE

\* _can_trade
can_trade(config, primary_net, secondary_net) ==
    LET primary_pos   == RAbs(primary_net)
        secondary_pos == RAbs(secondary_net)
    IN  IF RLe(config.max_position_size, primary_pos) THEN FALSE
        ELSE IF RLe(config.max_position_size, secondary_pos) THEN FALSE
        ELSE TRUE

\* what one on_quote_tick call did, besides changing the strategy; nets
\* are the net positions _can_trade read from the portfolio (primary,
\* secondary), none when it was not called
TickOut(tick, routed, evaluated, appended, spread_bps, opportunity, orders, raised, appends, nets) ==
    [tick |-> tick, routed |-> routed, evaluated |-> evaluated, appended |-> appended, spread_bps |-> spread_bps, opportunity |-> opportunity, orders |-> orders, raised |-> raised, appends |-> appends, nets |-> nets]

\* _handle_spread_opportunity: the orders submitted and the exception
\* raised, if any (make_qty on an instrument that is None)
handle_spread_opportunity(s, primary_mid, secondary_mid, primary_net, secondary_net) ==
    IF ~can_trade(s.config, primary_net, secondary_net)
    THEN [orders |-> <<>>, raised |-> "none"]
    ELSE
    LET direction  == IF RLt(primary_mid, secondary_mid) THEN "BUY_PRIMARY" ELSE "SELL_PRIMARY"
        instrument == IF s.config.trade_primary THEN s.primary_instrument ELSE s.secondary_instrument
        side       == IF s.config.trade_primary
                      THEN (IF direction = "BUY_PRIMARY" THEN "BUY" ELSE "SELL")
                      ELSE (IF direction = "BUY_PRIMARY" THEN "SELL" ELSE "BUY")
    IN  IF instrument = <<>>
        THEN [orders |-> <<>>, raised |-> "AttributeError"]
        ELSE [orders |-> <<[type |-> "MARKET",
                            instrument_id |-> instrument[1].id,
                            order_side |-> side,
                            quantity |-> make_qty(instrument[1], RMul(s.config.max_position_size, Rat(1, 10)))]>>,
              raised |-> "none"]

\* _evaluate_spread, both quotes held
evaluate_spread(s, tick, routed, appends, primary_net, secondary_net) ==
    LET p_mid == mid_price(s.primary_quote[1])
        s_mid == mid_price(s.secondary_quote[1])
    IN  IF ~RPos(p_mid) \/ ~RPos(s_mid)
        THEN [strat |-> s,
              out   |-> TickOut(tick, routed, TRUE, FALSE, Zero, FALSE, <<>>, "none", appends, <<>>)]
        ELSE
        LET spread_bps == RMul(RDiv(RAbs(RSub(p_mid, s_mid)), RMin(p_mid, s_mid)), Int2Rat(10000))
            s2 == [s EXCEPT !.spread_history = deque_append(s.spread_history, spread_bps)]
        IN  IF RLe(s.config.min_spread_bps, spread_bps)
            THEN LET h == handle_spread_opportunity(s2, p_mid, s_mid, primary_net, secondary_net)
                 IN  [strat |-> s2,
                      out   |-> TickOut(tick, routed, TRUE, TRUE, spread_bps, TRUE, h.orders, h.raised, appends + 1, <<primary_net, secondary_net>>)]
            ELSE [strat |-> s2,
                  out   |-> TickOut(tick, routed, TRUE, TRUE, spread_bps, FALSE, <<>>, "none", appends + 1, <<>>)]

\* Slip: the spread is evaluated as soon as either quote is held
\* (self._primary_quote or self._secondary_quote); a missing quote reads
\* as the one that arrived
on_quote_tick_either_quote(s, tick, appends, primary_net, secondary_net) ==
    IF tick.instrument_id # s.primary_id /\ tick.instrument_id # s.secondary_id
    THEN [strat |-> s, out |-> TickOut(tick, "ignored", FALSE, FALSE, Zero, FALSE, <<>>, "none", appends, <<>>)]
    ELSE LET routed == IF tick.instrument_id = s.primary_id THEN "primary" ELSE "secondary"
             s1 == [s EXCEPT !.primary_quote = IF routed = "primary" \/ s.primary_quote = <<>> THEN <<tick>> ELSE s.primary_quote,
                             !.secondary_quote = IF routed = "secondary" \/ s.secondary_quote = <<>> THEN <<tick>> ELSE s.secondary_quote]
         IN  evaluate_spread(s1, tick, routed, appends, primary_net, secondary_net)

\* on_quote_tick: the strategy after the call and what the call did;
\* appends counts the entries ever appended to the spread history
on_quote_tick(s, tick, appends, primary_net, secondary_net) ==
    IF tick.instrument_id # s.primary_id /\ tick.instrument_id # s.secondary_id
    THEN [strat |-> s, out |-> TickOut(tick, "ignored", FALSE, FALSE, Zero, FALSE, <<>>, "none", appends, <<>>)]
    ELSE LET routed == IF tick.instrument_id = s.primary_id THEN "primary" ELSE "secondary"
             s1 == IF routed = "primary"
                   THEN [s EXCEPT !.primary_quote = <<tick>>]
                   ELSE [s EXCEPT !.secondary_quote = <<tick>>]
         IN  IF s1.primary_quote # <<>> /\ s1.secondary_quote # <<>>
             THEN evaluate_spread(s1, tick, routed, appends, primary_net, secondary_net)
             ELSE [strat |-> s1, out |-> TickOut(tick, routed, FALSE, FALSE, Zero, FALSE, <<>>, "none", appends, <<>>)]

\* The quote stream: the primary venue quotes around 100, the secondary
\* venue quotes 0 (an empty book), then 100.05, then 100.30, never
\* falling back; ticks of a third instrument arrive at any time
PrimaryTicks   == {QuoteTick(PRIMARY_ID, Rat(999, 10), Rat(1001, 10))}
SecondaryTicks ==
    {QuoteTick(SECONDARY_ID, Zero, Zero),
     QuoteTick(SECONDARY_ID, Int2Rat(100), Rat(1001, 10)),
     QuoteTick(SECONDARY_ID, Rat(1002, 10), Rat(1004, 10))}
OtherTicks     == {QuoteTick(OTHER_ID, Int2Rat(50), Int2Rat(51))}
\* what portfolio.net_position answers for the primary and the secondary
\* instrument: flat on both, at the limit on the primary, short beyond
\* the limit on the secondary
NetPositions   == {<<Zero, Zero>>, <<One, Zero>>, <<Zero, Rat(-3, 2)>>}

NoTick == QuoteTick("none", Zero, Zero)

InitStrategy ==
    /\ AmmParked
    /\ \E trade_primary \in BOOLEAN :
          strat = [config               |-> StrategyConfig(trade_primary),
                   primary_id           |-> PRIMARY_ID,
                   secondary_id         |-> SECONDARY_ID,
                   primary_instrument   |-> <<>>,
                   secondary_instrument |-> <<>>,
                   primary_quote        |-> <<>>,
                   secondary_quote      |-> <<>>,
                   spread_history       |-> <<>>]
    /\ tickOut = TickOut(NoTick, "none", FALSE, FALSE, Zero, FALSE, <<>>, "none", 0, <<>>)
    /\ env = "parked" /\ bundle = "parked" /\ prov = "parked"
    /\ RestParked

StrategyOnly == UNCHANGED <<ammVars, env, bundle, prov, restVars>>

\* on_start, the cache holding both instruments or lacking one (the
\* strategy then stops itself)
OnStart ==
    /\ strat.primary_instrument = <<>>
    /\ \E has_primary, has_secondary \in BOOLEAN :
          strat' = [strat EXCEPT
                      !.primary_instrument = IF has_primary THEN <<Instrument(strat.primary_id)>> ELSE <<>>,
                      !.secondary_instrument = IF has_primary /\ has_secondary THEN <<Instrument(strat.secondary_id)>> ELSE <<>>]
    /\ strat'.primary_instrument # <<>>
    /\ UNCHANGED tickOut
    /\ StrategyOnly

Deliver(tick) ==
    /\ tickOut.appends < MaxAppends
    /\ \E nets \in NetPositions :
          LET r == on_quote_tick(strat, tick, tickOut.appends, nets[1], nets[2])
          IN  /\ strat' = r.strat
              /\ tickOut' = r.out
    /\ StrategyOnly

\* on_quote_tick(tick), by the instrument of the tick
PrimaryTick == \E tick \in PrimaryTicks : Deliver(tick)

SecondaryTick ==
    \E tick \in SecondaryTicks :
        /\ strat.secondary_quote # <<>> => RLe(mid_price(strat.secondary_quote[1]), mid_price(tick))
        /\ Deliver(tick)

OtherTick == \E tick \in OtherTicks : Deliver(tick)

NextStrategy == OnStart \/ PrimaryTick \/ SecondaryTick \/ OtherTick

SpecStrategy == InitStrategy /\ [][NextStrategy]_vars

\* ------------------------------------------------------------------------
\* C20: the spread is evaluated once for each tick of a configured
\* instrument that arrives when a quote of both instruments is held (the
\* arriving tick counted), and never otherwise; a tick of any other
\* instrument changes no state; with positive mids the spread history
\* holds one entry per evaluation, capped at the 100 most recent.
\* ------------------------------------------------------------------------
\* tick is of a configured instrument and, with it, both quotes are held
C20_Qualifies(s, tick) ==
    \/ tick.instrument_id = s.primary_id /\ s.secondary_quote # <<>>
    \/ /\ tick.instrument_id = s.secondary_id
       /\ tick.instrument_id # s.primary_id
       /\ s.primary_quote # <<>>

C20_MostRecent(h) ==
    IF Len(h) <= 100 THEN h ELSE SubSeq(h, Len(h) - 99, Len(h))

\* the step is an on_quote_tick call (on_start sets the instruments)
C20_TickStep ==
    /\ strat'.primary_instrument = strat.primary_instrument
    /\ strat'.secondary_instrument = strat.secondary_instrument

C20_PositiveMids(s) ==
    /\ RPos(mid_price(s.primary_quote[1]))
    /\ RPos(mid_price(s.secondary_quote[1]))

C20_Tick ==
    C20_TickStep =>
        LET tick == tickOut'.tick
        IN  /\ tickOut'.evaluated <=> C20_Qualifies(strat, tick)
            /\ (tick.instrument_id \notin {strat.primary_id, strat.secondary_id}
                    => strat' = strat)
            /\ tickOut'.appended <=>
                  (tickOut'.evaluated /\ C20_PositiveMids(strat'))
            /\ strat'.spread_history =
                  IF tickOut'.appended
                  THEN C20_MostRecent(Append(strat.spread_history, tickOut'.spread_bps))
                  ELSE strat.spread_history
            /\ tickOut'.appends = tickOut.appends + (IF tickOut'.appended THEN 1 ELSE 0)

C20_HistoryLength ==
    /\ Len(strat.spread_history) = (IF tickOut.appends < 100 THEN tickOut.appends ELSE 100)
    /\ strat.spread_history # <<>> => strat.primary_quote # <<>> /\ strat.secondary_quote # <<>>

\* C20: every tick evaluates the spread exactly when it should, and the
\* history is the last 100 appended spreads
C20_SpreadEvaluations ==
    /\ []C20_HistoryLength
    /\ [][C20_Tick]_vars

C20_Witness ==
    /\ tickOut.appends > 100
    /\ tickOut.evaluated /\ tickOut.appended
    /\ Len(strat.spread_history) = 100
    /\ strat.spread_history[1] # strat.spread_history[100]

\* ------------------------------------------------------------------------
\* C21: on a tick of one of its two instruments the strategy reacts to a
\* spread opportunity (calls _handle_spread_opportunity) if and only if
\* both quotes are held, both mids are positive and
\* |p_mid - s_mid| / min(p_mid, s_mid) * 10000 >= min_spread_bps; it
\* submits an order only if, in addition, the absolute net positions on
\* both instruments are below max_position_size, and then exactly one
\* market order on the instrument trade_primary chooses.
\* ------------------------------------------------------------------------
C21_SpreadBps(s) ==
    LET p_mid == mid_price(s.primary_quote[1])
        s_mid == mid_price(s.secondary_quote[1])
        low   == IF RLt(p_mid, s_mid) THEN p_mid ELSE s_mid
        diff  == IF RLt(p_mid, s_mid) THEN RSub(s_mid, p_mid) ELSE RSub(p_mid, s_mid)
    IN  RMul(RDiv(diff, low), Int2Rat(10000))

\* the conditions under which the strategy is to react, in the state the
\* tick leaves
C21_Opportunity(s) ==
    /\ s.primary_quote # <<>> /\ s.secondary_quote # <<>>
    /\ RPos(mid_price(s.primary_quote[1]))
    /\ RPos(mid_price(s.secondary_quote[1]))
    /\ RLe(s.config.min_spread_bps, C21_SpreadBps(s))

C21_BelowLimit(s, net) ==
    /\ RLt(net, s.config.max_position_size)
    /\ RLt(RSub(Zero, s.config.max_position_size), net)

C21_Tick ==
    C20_TickStep =>
        LET tick == tickOut'.tick
            configured == tick.instrument_id \in {strat.primary_id, strat.secondary_id}
            venue == IF strat.config.trade_primary THEN strat.primary_id ELSE strat.secondary_id
        IN  /\ configured =>
                  (tickOut'.opportunity <=> C21_Opportunity(strat'))
            /\ ~configured => ~tickOut'.opportunity
            /\ tickOut'.orders # <<>> =>
                  /\ tickOut'.opportunity
                  /\ Len(tickOut'.orders) = 1
                  /\ tickOut'.orders[1].type = "MARKET"
                  /\ tickOut'.orders[1].instrument_id = venue
                  /\ Len(tickOut'.nets) = 2
                  /\ C21_BelowLimit(strat, tickOut'.nets[1])
                  /\ C21_BelowLimit(strat, tickOut'.nets[2])

C22_Case(c) == IsLevels(c) /\ c.kind = "ok"

C22_BidOk(c, i) ==
    LET price == c.bids[i][1]
        t     == c.bids[i][2]
    IN  amm_execution_price(reserve0, reserve1, t, c.fee_rate, FALSE) = Num(price)

C22_AskOk(c, i) ==
    LET price == c.asks[i][1]
        t     == c.asks[i][2]
        A     == RMul(price, t)
    IN  /\ amm_execution_price(reserve0, reserve1, A, c.fee_rate, TRUE) = Num(price)
        /\ new_reserves_exec(reserve0, reserve1, A, c.fee_rate, TRUE) = <<<<RSub(reserve0, t), RAdd(reserve1, RMul(A, OneMinus(c.fee_rate)))>>>>

BookAction == [CLEAR |-> "CLEAR", ADD |-> "ADD"]

\* OrderBookDelta.clear(...) and OrderBookDelta(...): the template passes
\* order=None, so a delta carries no price and no size
OrderBookDelta(instrument_id, action, sequence, ts_event, ts_init) ==
    [instrument_id |-> instrument_id, action |-> action, order |-> "None",
     flags |-> 0, sequence |-> sequence, ts_event |-> ts_event, ts_init |-> ts_init]

\* sorted(levels, key=...): a stable sort on the price, descending for
\* key=lambda x: -x[0] and ascending for key=lambda x: x[0]
RECURSIVE insert_level(_, _, _)
insert_level(done, x, descending) ==
    IF done = <<>> THEN <<x>>
    ELSE LET e      == done[Len(done)]
             before == IF descending THEN RLt(e[1], x[1]) ELSE RLt(x[1], e[1])
         IN  IF before
             THEN Append(insert_level(SubSeq(done, 1, Len(done) - 1), x, descending), e)
             ELSE Append(done, x)

RECURSIVE sorted_levels(_, _, _)
sorted_levels(levels, n, descending) ==
    IF n = 0 THEN <<>>
    ELSE insert_level(sorted_levels(levels, n - 1, descending), levels[n], descending)

\* Slip: the sequence number is not advanced after a delta is appended
RECURSIVE add_deltas_same_sequence(_, _, _, _, _, _, _)
add_deltas_same_sequence(deltas, sequence, levels, i, instrument_id, ts_event, ts_init) ==
    IF i > Len(levels) THEN [deltas |-> deltas, sequence |-> sequence]
    ELSE add_deltas_same_sequence(Append(deltas, OrderBookDelta(instrument_id, BookAction.ADD, sequence, ts_event, ts_init)),
                                  sequence, levels, i + 1, instrument_id, ts_event, ts_init)

\* one of the two loops: an ADD delta for each level from the i-th on
RECURSIVE add_deltas(_, _, _, _, _, _, _)
add_deltas(deltas, sequence, levels, i, instrument_id, ts_event, ts_init) ==
    IF i > Len(levels) THEN [deltas |-> deltas, sequence |-> sequence]
    ELSE add_deltas(Append(deltas, OrderBookDelta(instrument_id, BookAction.ADD, sequence, ts_event, ts_init)),
                    sequence + 1, levels, i + 1, instrument_id, ts_event, ts_init)

\* the outcome of build_order_book_snapshot: the batch, with the level
\* lists calculate_amm_price_levels returned and the two sorted lists the
\* loops went through, or the exception the level generator raised
Snapshot(kind, levels, bid_iter, ask_iter, deltas) ==
    [kind |-> kind, bids |-> levels.bids, asks |-> levels.asks,
     bid_iter |-> bid_iter, ask_iter |-> ask_iter, deltas |-> deltas]

build_order_book_snapshot(instrument_id, r0, r1, fee_rate, ts_event, ts_init, num_levels, size_step) ==
    LET levels == calculate_amm_price_levels(r0, r1, fee_rate, num_levels, size_step)
    IN  IF levels.kind # "ok" THEN Snapshot(levels.kind, levels, <<>>, <<>>, <<>>)
        ELSE
        LET clear_delta == OrderBookDelta(instrument_id, BookAction.CLEAR, 0, ts_event, ts_init)
            bid_iter    == sorted_levels(levels.bids, Len(levels.bids), TRUE)
            ask_iter    == sorted_levels(levels.asks, Len(levels.asks), FALSE)
            after_bids  == add_deltas(<<clear_delta>>, 1, bid_iter, 1, instrument_id, ts_event, ts_init)
            after_asks  == add_deltas(after_bids.deltas, after_bids.sequence, ask_iter, 1, instrument_id, ts_event, ts_init)
        IN  Snapshot("ok", levels, bid_iter, ask_iter, after_asks.deltas)

POOL_ID == "WETH-USDC.MYDEX"
Timestamps_ns == {<<1, 1>>, <<1, 2>>}

NoSnapshot == [args |-> <<>>, out |-> Snapshot("none", Levels(<<>>, <<>>), <<>>, <<>>, <<>>)]

InitBook ==
    /\ reserve0 \in Reserves
    /\ reserve1 \in Reserves
    /\ prev = NoCall /\ last = NoCall /\ sims = NoSims
    /\ book = NoSnapshot
    /\ env = "parked" /\ bundle = "parked" /\ prov = "parked"
    /\ strat = "parked" /\ tickOut = "parked"
    /\ dataClient = "parked" /\ factory = "parked"
    /\ execClient = "parked" /\ algo = "parked"

BookOnly == UNCHANGED <<ammVars, env, bundle, prov, strat, tickOut, dataClient, factory, execClient, algo>>

\* build_order_book_snapshot on the pool's reserves
BuildSnapshot ==
    /\ \E fee_rate \in FeeRates, num_levels \in NumLevels, size_step \in SizeSteps, ts \in Timestamps_ns :
          book' = [args |-> <<fee_rate, num_levels, size_step, ts>>,
                   out  |-> build_order_book_snapshot(POOL_ID, reserve0, reserve1, fee_rate, ts[1], ts[2], num_levels, size_step)]
    /\ BookOnly

NextBook == BuildSnapshot

SpecBook == InitBook /\ [][NextBook]_vars

\* ------------------------------------------------------------------------
\* C23: the batch is one CLEAR delta with sequence 0, then one ADD delta
\* per bid level, the levels taken in descending price order, then one ADD
\* delta per ask level, the levels taken in ascending price order; the
\* sequence numbers are 0, 1, 2, ... without gap or repeat, so the batch
\* has 1 + #bids + #asks deltas; a degenerate pool (reserve0 <= 0 or
\* reserve1 <= 0) yields the CLEAR delta alone.
\* ------------------------------------------------------------------------
\* t holds the levels of s, each as often as s does
C23_SameLevels(s, t) ==
    /\ Len(s) = Len(t)
    /\ \A x \in {s[i] : i \in 1 .. Len(s)} \cup {t[i] : i \in 1 .. Len(t)} :
          Cardinality({i \in 1 .. Len(s) : s[i] = x}) = Cardinality({i \in 1 .. Len(t) : t[i] = x})

C23_Descending(l) == \A i \in 1 .. Len(l) - 1 : RLe(l[i + 1][1], l[i][1])
C23_Ascending(l)  == \A i \in 1 .. Len(l) - 1 : RLe(l[i][1], l[i + 1][1])

C23_Batch(b) ==
    LET d == b.deltas
    IN  /\ Len(d) = 1 + Len(b.bids) + Len(b.asks)
        /\ d[1].action = "CLEAR"
        /\ \A i \in 1 .. Len(d) : d[i].sequence = i - 1
        /\ \A i \in 2 .. Len(d) : d[i].action = "ADD"
        /\ C23_SameLevels(b.bids, b.bid_iter) /\ C23_Descending(b.bid_iter)
        /\ C23_SameLevels(b.asks, b.ask_iter) /\ C23_Ascending(b.ask_iter)

C23_SnapshotBatch ==
    book.out.kind = "ok" =>
        /\ C23_Batch(book.out)
        /\ (~RPos(reserve0) \/ ~RPos(reserve1)) => Len(book.out.deltas) = 1

C23_Witness ==
    /\ book.out.kind = "ok"
    /\ Len(book.out.bids) = 3 /\ Len(book.out.asks) = 3
    /\ Len(book.out.deltas) = 7
    /\ book.out.deltas[7].sequence = 6

\* ------------------------------------------------------------------------
\* C24: for reserves > 0, fee_rate in [0, 1) and size_step > 0, in the
\* order calculate_amm_price_levels emits them the level sizes strictly
\* increase, the bid prices strictly decrease and the ask prices strictly
\* increase, so the sorting in build_order_book_snapshot leaves both
\* lists as they are.
\* ------------------------------------------------------------------------
C24_Case ==
    /\ book.out.kind = "ok"
    /\ ValidPool /\ ValidFee(book.args[1]) /\ RPos(book.args[3])

C24_SizesIncrease(l) == \A i \in 1 .. Len(l) - 1 : RLt(l[i][2], l[i + 1][2])
C24_PricesIncrease(l) == \A i \in 1 .. Len(l) - 1 : RLt(l[i][1], l[i + 1][1])
C24_PricesDecrease(l) == \A i \in 1 .. Len(l) - 1 : RLt(l[i + 1][1], l[i][1])

fl_add(a, b) == Fl(RAdd(a, b))
fl_sub(a, b) == Fl(RSub(a, b))

\* the outcome and the simulated post-trade reserves (none when the
\* division raises)
amm_execution_price_float(r0, r1, amount_in, fee_rate, is_buy) ==
    LET k == fl_mul(r0, r1)
        amount_in_adjusted == fl_mul(amount_in, fl_sub(One, fee_rate))
    IN  IF is_buy
        THEN LET new_reserve1 == fl_add(r1, amount_in_adjusted)
             IN  IF RIsZero(new_reserve1)
                 THEN [out |-> Raise("ZeroDivisionError"), sim |-> <<>>]
                 ELSE LET new_reserve0 == fl_div(k, new_reserve1)
                          amount_out   == fl_sub(r0, new_reserve0)
                      IN  [out |-> IF RPos(amount_out)
                                   THEN Num(fl_div(amount_in, amount_out))
                                   ELSE Inf,
                           sim |-> <<<<new_reserve0, new_reserve1>>>>]
        ELSE LET new_reserve0 == fl_add(r0, amount_in_adjusted)
             IN  IF RIsZero(new_reserve0)
                 THEN [out |-> Raise("ZeroDivisionError"), sim |-> <<>>]
                 ELSE LET new_reserve1 == fl_div(k, new_reserve0)
                          amount_out   == fl_sub(r1, new_reserve1)
                      IN  [out |-> IF RPos(amount_in)
                                   THEN Num(fl_div(amount_out, amount_in))
                                   ELSE Num(Zero),
                           sim |-> <<<<new_reserve0, new_reserve1>>>>]

\* float arguments: trades from dust to many times the pool, fee rates
\* 0, 0.003 (as the nearest float) and 0.25
FloatAmounts == {Rat(1, 512), Rat(1, 4), One, Int2Rat(3), Int2Rat(4096)}
FloatFees    == {Zero, Fl(Rat(3, 1000)), Rat(1, 4)}

FloatExecutionPrice ==
    \E amount_in \in FloatAmounts, fee_rate \in FloatFees, is_buy \in BOOLEAN :
        LET r == amm_execution_price_float(reserve0, reserve1, amount_in, fee_rate, is_buy)
        IN  /\ Record(Call("amm_execution_price", fee_rate, amount_in, is_buy, 0, Zero, r.out.kind, r.out.val, <<>>, <<>>))
            /\ sims' = [NoSims EXCEPT !.exec = r.sim]

NextFloatExec == FloatExecutionPrice

SpecFloatExec == InitFloat /\ [][NextFloatExec]_vars

\* ------------------------------------------------------------------------
\* C25: a buy never drains the pool.  For reserve0 > 0, reserve1 > 0,
\* fee_rate in [0, 1) and every amount_in > 0 the simulated amount_out
\* satisfies 0 < amount_out < reserve0 and amm_execution_price(is_buy=True)
\* returns a finite positive price; +infinity is returned only when
\* amount_in * (1 - fee_rate) <= 0.
\* ------------------------------------------------------------------------
C25_Case(c) ==
    /\ IsExec(c) /\ c.is_buy
    /\ ValidPool /\ ValidFee(c.fee_rate)

C25_AmountOut == RSub(reserve0, sims.exec[1][1])

C25_BuyNeverDrains ==
    C25_Case(last) =>
        /\ RPos(last.amount_in) =>
              /\ sims.exec # <<>>
              /\ RPos(C25_AmountOut) /\ RLt(C25_AmountOut, reserve0)
              /\ last.kind = "num" /\ RPos(last.val)
        /\ last.kind = "inf" =>
              RLe(RMul(last.amount_in, OneMinus(last.fee_rate)), Zero)

\* ========================================================================
\* The DEX data client (nt-dex-adapter/templates/dex_data_client.py):
\* quote tick subscriptions and their polling tasks
\* ========================================================================
MaxTasks == 4

PoolInstruments == {"WETH-USDC.MYDEX", "WBTC-USDC.MYDEX"}

\* asyncio.ensure_future(self._poll_pool_state(instrument_id)): a pending
\* task; task.cancel() requests its cancellation
Task(instrument_id) ==
    [instrument_id |-> instrument_id, cancel_requested |-> FALSE, state |-> "pending"]

task_cancel(tasks, t) ==
    IF tasks[t].state = "pending"
    THEN [tasks EXCEPT ![t].cancel_requested = TRUE]
    ELSE tasks

\* the client: _poll_tasks maps an instrument to the index of its task in
\* tasks, the tasks ever created; subscribed is the history the handlers
\* were called with (subscribed and not unsubscribed or disconnected
\* since); op, arg are the last call
DataClient(poll_tasks, tasks, subscribed, op, arg) ==
    [poll_tasks |-> poll_tasks, tasks |-> tasks, subscribed |-> subscribed, op |-> op, arg |-> arg]

\* _subscribe_quote_ticks
subscribe_quote_ticks(c, instrument_id) ==
    IF instrument_id \in DOMAIN c.poll_tasks
    THEN DataClient(c.poll_tasks, c.tasks, c.subscribed \cup {instrument_id}, "subscribe", instrument_id)
    ELSE LET tasks == Append(c.tasks, Task(instrument_id))
         IN  DataClient(DictSet(c.poll_tasks, instrument_id, Len(tasks)), tasks,
                        c.subscribed \cup {instrument_id}, "subscribe", instrument_id)

\* Slip: the popped task is not cancelled
unsubscribe_quote_ticks_no_cancel(c, instrument_id) ==
    IF instrument_id \in DOMAIN c.poll_tasks
    THEN DataClient(DictDel(c.poll_tasks, instrument_id), c.tasks,
                    c.subscribed \ {instrument_id}, "unsubscribe", instrument_id)
    ELSE DataClient(c.poll_tasks, c.tasks, c.subscribed \ {instrument_id}, "unsubscribe", instrument_id)

\* _unsubscribe_quote_ticks: pop(instrument_id, None), then cancel
unsubscribe_quote_ticks(c, instrument_id) ==
    IF instrument_id \in DOMAIN c.poll_tasks
    THEN DataClient(DictDel(c.poll_tasks, instrument_id),
                    task_cancel(c.tasks, c.poll_tasks[instrument_id]),
                    c.subscribed \ {instrument_id}, "unsubscribe", instrument_id)
    ELSE DataClient(c.poll_tasks, c.tasks, c.subscribed \ {instrument_id}, "unsubscribe", instrument_id)

\* _disconnect: cancel every task of the map, then clear the map
RECURSIVE cancel_all(_, _)
cancel_all(tasks, ts) ==
    IF ts = {} THEN tasks
    ELSE LET t == CHOOSE x \in ts : TRUE
         IN  cancel_all(task_cancel(tasks, t), ts \ {t})

disconnect(c) ==
    DataClient(EmptyDict, cancel_all(c.tasks, {c.poll_tasks[i] : i \in DOMAIN c.poll_tasks}),
               {}, "disconnect", "none")

InitDataClient ==
    /\ AmmParked
    /\ dataClient = DataClient(EmptyDict, <<>>, {}, "none", "none")
    /\ env = "parked" /\ bundle = "parked" /\ prov = "parked"
    /\ strat = "parked" /\ tickOut = "parked"
    /\ book = "parked" /\ factory = "parked"
    /\ execClient = "parked" /\ algo = "parked"

DataClientOnly == UNCHANGED <<ammVars, env, bundle, prov, strat, tickOut, book, factory, execClient, algo>>

SubscribeQuoteTicks ==
    /\ \E instrument_id \in PoolInstruments :
          /\ instrument_id \in DOMAIN dataClient.poll_tasks \/ Len(dataClient.tasks) < MaxTasks
          /\ dataClient' = subscribe_quote_ticks(dataClient, instrument_id)
    /\ DataClientOnly

UnsubscribeQuoteTicks ==
    /\ \E instrument_id \in PoolInstruments :
          dataClient' = unsubscribe_quote_ticks(dataClient, instrument_id)
    /\ DataClientOnly

Disconnect ==
    /\ dataClient' = disconnect(dataClient)
    /\ DataClientOnly

\* _poll_pool_state: the CancelledError raised at the task's await ends
\* the loop and the task; an iteration without it sleeps and changes
\* nothing (the fetch is left to the implementer)
PollPoolState ==
    /\ \E t \in 1 .. Len(dataClient.tasks) :
          /\ dataClient.tasks[t].state = "pending"
          /\ dataClient.tasks[t].cancel_requested
          /\ dataClient' = [dataClient EXCEPT !.tasks[t].state = "cancelled", !.op = "poll", !.arg = "none"]
    /\ DataClientOnly

NextDataClient == SubscribeQuoteTicks \/ UnsubscribeQuoteTicks \/ Disconnect \/ PollPoolState

SpecDataClient == InitDataClient /\ [][NextDataClient]_vars

\* ------------------------------------------------------------------------
\* C26: over any sequence of _subscribe_quote_ticks,
\* _unsubscribe_quote_ticks and _disconnect calls each instrument has at
\* most one uncancelled polling task; subscribing a subscribed instrument
\* creates no task; _poll_tasks maps exactly the subscribed instruments to
\* their task; every task removed from the map has been cancelled;
\* unsubscribing an instrument that is not subscribed changes nothing;
\* after _disconnect the map is empty.
\* ------------------------------------------------------------------------
C26_Uncancelled(c, instrument_id) ==
    {t \in 1 .. Len(c.tasks) :
        c.tasks[t].instrument_id = instrument_id /\ ~c.tasks[t].cancel_requested}

C26_Mapped(c) == {c.poll_tasks[i] : i \in DOMAIN c.poll_tasks}

C26_State ==
    LET c == dataClient
    IN  /\ \A i \in PoolInstruments : Cardinality(C26_Uncancelled(c, i)) <= 1
        /\ DOMAIN c.poll_tasks = c.subscribed
        /\ \A i \in DOMAIN c.poll_tasks :
              /\ c.poll_tasks[i] \in 1 .. Len(c.tasks)
              /\ c.tasks[c.poll_tasks[i]].instrument_id = i
              /\ C26_Uncancelled(c, i) = {c.poll_tasks[i]}
        /\ \A t \in 1 .. Len(c.tasks) :
              t \notin C26_Mapped(c) => c.tasks[t].cancel_requested

C26_Call ==
    LET c == dataClient
        d == dataClient'
    IN  /\ (d.op = "subscribe" /\ d.arg \in c.subscribed) =>
              d.tasks = c.tasks /\ d.poll_tasks = c.poll_tasks
        /\ (d.op = "subscribe" /\ d.arg \notin c.subscribed) =>
              /\ Len(d.tasks) = Len(c.tasks) + 1
              /\ d.poll_tasks[d.arg] = Len(d.tasks)
        /\ (d.op = "unsubscribe" /\ d.arg \notin c.subscribed) =>
              d.tasks = c.tasks /\ d.poll_tasks = c.poll_tasks
        /\ d.op = "disconnect" => DOMAIN d.poll_tasks = {}
        /\ \A t \in 1 .. Len(c.tasks) : d.tasks[t].instrument_id = c.tasks[t].instrument_id

C26_OnePollTaskPerInstrument ==
    /\ []C26_State
    /\ [][C26_Call]_vars

\* an instrument subscribed again after an unsubscribe: two tasks were
\* made for it, the first is cancelled and has ended, the second is mapped
C26_Witness ==
    LET c == dataClient
    IN  /\ c.op = "subscribe" /\ c.arg = "WETH-USDC.MYDEX"
        /\ Cardinality({t \in 1 .. Len(c.tasks) : c.tasks[t].instrument_id = "WETH-USDC.MYDEX"}) = 2
        /\ c.tasks[1].state = "cancelled"
        /\ c.poll_tasks["WETH-USDC.MYDEX"] = Len(c.tasks)
        /\ "WBTC-USDC.MYDEX" \in c.subscribed

\* ========================================================================
\* The client factories and their shared instrument provider cache
\* (nt-dex-adapter/templates/dex_factory.py, dex_config.py)
\* ========================================================================
MaxClients == 3

RpcUrls == {"https://rpc-a", "https://rpc-b"}

\* the fields of the two client configs that the factories read
MyDEXDataClientConfig(rpc_url, pool_addresses, sandbox_mode) ==
    [rpc_url |-> rpc_url, pool_addresses |-> pool_addresses, sandbox_mode |-> sandbox_mode]

MyDEXExecClientConfig(rpc_url, sandbox_mode) ==
    [rpc_url |-> rpc_url, sandbox_mode |-> sandbox_mode]

MyDEXInstrumentProviderConfig(rpc_url, pools, sandbox_mode) ==
    [rpc_url |-> rpc_url, pools |-> pools, sandbox_mode |-> sandbox_mode]

DataConfigs ==
    {MyDEXDataClientConfig(u, p, s) : u \in RpcUrls, p \in {<<>>, <<"0xPoolA">>}, s \in BOOLEAN}
ExecConfigs ==
    {MyDEXExecClientConfig(u, s) : u \in RpcUrls, s \in BOOLEAN}

\* the pools the provider config gets:
\* getattr(config, "pool_addresses", None) or getattr(config, "pools", [])
config_pools(config) ==
    LET pool_addresses == IF "pool_addresses" \in DOMAIN config THEN config.pool_addresses ELSE <<>>
    IN  IF pool_addresses # <<>> THEN pool_addresses
        ELSE IF "pools" \in DOMAIN config THEN config.pools
        ELSE <<>>

\* the module: _instrument_providers maps a key to the address of a
\* provider in objects, the providers ever constructed; clients are the
\* clients the factories returned, in order
Factory(instrument_providers, objects, clients) ==
    [instrument_providers |-> instrument_providers, objects |-> objects, clients |-> clients]

\* Slip: no lookup, a provider is constructed and stored on every call
get_or_create_instrument_provider_always_new(f, config) ==
    LET key == IF "rpc_url" \in DOMAIN config THEN config.rpc_url ELSE "default"
        sandbox_mode == IF "sandbox_mode" \in DOMAIN config THEN config.sandbox_mode ELSE FALSE
        objects == Append(f.objects, [config |-> MyDEXInstrumentProviderConfig(key, config_pools(config), sandbox_mode)])
    IN  [factory  |-> Factory(DictSet(f.instrument_providers, key, Len(objects)), objects, f.clients),
         provider |-> Len(objects)]

\* _get_or_create_instrument_provider: the module after the call and the
\* address of the provider returned
get_or_create_instrument_provider(f, config) ==
    LET key == IF "rpc_url" \in DOMAIN config THEN config.rpc_url ELSE "default"
    IN  IF key \notin DOMAIN f.instrument_providers
        THEN LET sandbox_mode == IF "sandbox_mode" \in DOMAIN config THEN config.sandbox_mode ELSE FALSE
                 objects == Append(f.objects, [config |-> MyDEXInstrumentProviderConfig(key, config_pools(config), sandbox_mode)])
             IN  [factory  |-> Factory(DictSet(f.instrument_providers, key, Len(objects)), objects, f.clients),
                  provider |-> Len(objects)]
        ELSE [factory |-> f, provider |-> f.instrument_providers[key]]

\* MyDEXLiveDataClientFactory.create / MyDEXLiveExecClientFactory.create:
\* the client holds the provider and its own config
create(f, class, name, config) ==
    LET r == get_or_create_instrument_provider(f, config)
    IN  [r.factory EXCEPT !.clients =
            Append(@, [class |-> class, client_id |-> name, venue |-> name,
                       instrument_provider |-> r.provider, config |-> config])]

VENUE_NAME == "MYDEX"

InitFactory ==
    /\ AmmParked
    /\ factory = Factory(EmptyDict, <<>>, <<>>)
    /\ env = "parked" /\ bundle = "parked" /\ prov = "parked"
    /\ strat = "parked" /\ tickOut = "parked"
    /\ book = "parked" /\ dataClient = "parked"
    /\ execClient = "parked" /\ algo = "parked"

FactoryOnly == UNCHANGED <<ammVars, env, bundle, prov, strat, tickOut, book, dataClient, execClient, algo>>

CreateDataClient ==
    /\ Len(factory.clients) < MaxClients
    /\ \E config \in DataConfigs :
          factory' = create(factory, "MyDEXDataClient", VENUE_NAME, config)
    /\ FactoryOnly

CreateExecClient ==
    /\ Len(factory.clients) < MaxClients
    /\ \E config \in ExecConfigs :
          factory' = create(factory, "MyDEXExecutionClient", VENUE_NAME, config)
    /\ FactoryOnly

NextFactory == CreateDataClient \/ CreateExecClient

SpecFactory == InitFactory /\ [][NextFactory]_vars

\* ------------------------------------------------------------------------
\* C27: over any sequence of create calls of the two factories, clients
\* whose configs have the same rpc_url hold one and the same provider
\* instance and clients with different rpc_url hold different instances;
\* a provider is constructed at most once per rpc_url, from the pools and
\* sandbox_mode of the first config seen with that rpc_url, and later
\* configs never replace or reconfigure it.
\* ------------------------------------------------------------------------
\* the index of the first client created with rpc_url u
C27_First(clients, u) ==
    CHOOSE i \in 1 .. Len(clients) :
        /\ clients[i].config.rpc_url = u
        /\ \A j \in 1 .. i - 1 : clients[j].config.rpc_url # u

C27_Pools(config) ==
    IF "pool_addresses" \in DOMAIN config THEN config.pool_addresses ELSE <<>>

C27_State ==
    LET clients == factory.clients
        objects == factory.objects
        seen    == {clients[i].config.rpc_url : i \in 1 .. Len(clients)}
    IN  /\ \A i, j \in 1 .. Len(clients) :
              (clients[i].config.rpc_url = clients[j].config.rpc_url)
                  <=> (clients[i].instrument_provider = clients[j].instrument_provider)
        /\ \A u \in RpcUrls :
              Cardinality({a \in 1 .. Len(objects) : objects[a].config.rpc_url = u})
                  = (IF u \in seen THEN 1 ELSE 0)
        /\ \A i \in 1 .. Len(clients) :
              LET first == clients[C27_First(clients, clients[i].config.rpc_url)].config
                  held  == objects[clients[i].instrument_provider].config
              IN  /\ held.rpc_url = clients[i].config.rpc_url
                  /\ held.pools = C27_Pools(first)
                  /\ held.sandbox_mode = first.sandbox_mode

\* a provider once constructed and a cache entry once made stay as they are
C27_Call ==
    /\ \A a \in 1 .. Len(factory.objects) :
          /\ a <= Len(factory'.objects)
          /\ factory'.objects[a] = factory.objects[a]
    /\ \A k \in DOMAIN factory.instrument_providers :
          /\ k \in DOMAIN factory'.instrument_providers
          /\ factory'.instrument_providers[k] = factory.instrument_providers[k]
    /\ \A i \in 1 .. Len(factory.clients) : factory'.clients[i] = factory.clients[i]

C27_SharedProvider ==
    /\ []C27_State
    /\ [][C27_Call]_vars

\* a data client and an execution client on one rpc_url with differing
\* sandbox_mode share the provider made for the first, a third client on
\* the other rpc_url has its own
C27_Witness ==
    LET clients == factory.clients
    IN  /\ Len(clients) = 3
        /\ clients[1].class = "MyDEXDataClient" /\ clients[2].class = "MyDEXExecutionClient"
        /\ clients[1].config.rpc_url = clients[2].config.rpc_url
        /\ clients[1].config.sandbox_mode /\ ~clients[2].config.sandbox_mode
        /\ clients[1].config.pool_addresses # <<>>
        /\ clients[3].config.rpc_url # clients[1].config.rpc_url
        /\ clients[1].instrument_provider = clients[2].instrument_provider
        /\ Len(factory.objects) = 2

\* ========================================================================
\* The DEX execution client (nt-dex-adapter/templates/dex_exec_client.py):
\* _submit_order
\* ========================================================================
MaxSubmits == 2

\* generate_order_rejected / generate_order_submitted: the order event
\* the client emits; a reason is the parts of its text
OrderRejected(order, reason) ==
    [type |-> "OrderRejected", client_order_id |-> order.client_order_id, reason |-> reason]
OrderSubmitted(order) ==
    [type |-> "OrderSubmitted", client_order_id |-> order.client_order_id, reason |-> <<>>]

\* the client: the provider's instruments, _pending_txs, the events
\* emitted so far and, for each _submit_order call, the order, what the
\* try block did and the events and _pending_txs before it
ExecClient(instruments, pending_txs, events, calls) ==
    [instruments |-> instruments, pending_txs |-> pending_txs, events |-> events, calls |-> calls]

\* Slip: the rejection of an unknown instrument does not return
submit_order_no_return(c, order, raised) ==
    LET instrument == find(c.instruments, order.instrument_id)
        call       == [order |-> order, raised |-> raised, events_before |-> Len(c.events), pending_before |-> c.pending_txs]
        rejected   == IF instrument = <<>>
                      THEN <<OrderRejected(order, <<"Instrument not found: ", order.instrument_id>>)>>
                      ELSE <<>>
    IN  IF raised = <<>>
        THEN [c EXCEPT !.events = @ \o rejected \o <<OrderSubmitted(order)>>, !.calls = Append(@, call)]
        ELSE [c EXCEPT !.events = @ \o rejected \o <<OrderRejected(order, raised)>>, !.calls = Append(@, call)]

\* _submit_order; raised is the text of the exception the try block
\* raised before its event was out, none when generate_order_submitted
\* returned
submit_order(c, order, raised) ==
    LET instrument == find(c.instruments, order.instrument_id)
        call       == [order |-> order, raised |-> raised, events_before |-> Len(c.events), pending_before |-> c.pending_txs]
    IN  IF instrument = <<>>
        THEN [c EXCEPT !.events = Append(@, OrderRejected(order, <<"Instrument not found: ", order.instrument_id>>)),
                       !.calls = Append(@, call)]
        ELSE IF raised = <<>>
        THEN [c EXCEPT !.events = Append(@, OrderSubmitted(order)), !.calls = Append(@, call)]
        ELSE [c EXCEPT !.events = Append(@, OrderRejected(order, raised)), !.calls = Append(@, call)]

\* the orders the engine hands over, and what the try block can raise
Orders ==
    {[client_order_id |-> o, instrument_id |-> i] :
        o \in {"O-1", "O-2"}, i \in {InstrumentId("WETH", "USDC"), InstrumentId("DOGE", "USDC")}}
RaisedTexts == {<<>>, <<"insufficient funds for gas">>, <<"nonce too low">>}

InitExecClient ==
    /\ AmmParked
    /\ \E instruments \in {EmptyDict, load_sandbox_instruments(EmptyDict)} :
          execClient = ExecClient(instruments, EmptyDict, <<>>, <<>>)
    /\ env = "parked" /\ bundle = "parked" /\ prov = "parked"
    /\ strat = "parked" /\ tickOut = "parked"
    /\ book = "parked" /\ dataClient = "parked"
    /\ factory = "parked" /\ algo = "parked"

ExecClientOnly == UNCHANGED <<ammVars, env, bundle, prov, strat, tickOut, book, dataClient, factory, algo>>

SubmitOrder ==
    /\ Len(execClient.calls) < MaxSubmits
    /\ \E order \in Orders, raised \in RaisedTexts :
          execClient' = submit_order(execClient, order, raised)
    /\ ExecClientOnly

NextExecClient == SubmitOrder

SpecExecClient == InitExecClient /\ [][NextExecClient]_vars

\* ------------------------------------------------------------------------
\* C28: each _submit_order call emits exactly one order event:
\* OrderRejected with reason 'Instrument not found' and no OrderSubmitted
\* when the order's instrument is unknown to the provider, OrderSubmitted
\* when it is known, OrderRejected carrying the error text when the
\* submission raises; a rejected submission leaves _pending_txs unchanged.
\* ------------------------------------------------------------------------
\* the events call n emitted
C28_Emitted(c, n) ==
    LET from == c.calls[n].events_before
        to   == IF n < Len(c.calls) THEN c.calls[n + 1].events_before ELSE Len(c.events)
    IN  SubSeq(c.events, from + 1, to)

C28_PendingAfter(c, n) ==
    IF n < Len(c.calls) THEN c.calls[n + 1].pending_before ELSE c.pending_txs

C28_CallOk(c, n) ==
    LET call    == c.calls[n]
        emitted == C28_Emitted(c, n)
        known   == call.order.instrument_id \in DOMAIN c.instruments
    IN  /\ Len(emitted) = 1
        /\ emitted[1].client_order_id = call.order.client_order_id
        /\ ~known =>
              /\ emitted[1].type = "OrderRejected"
              /\ emitted[1].reason[1] = "Instrument not found: "
        /\ (known /\ call.raised = <<>>) => emitted[1].type = "OrderSubmitted"
        /\ (known /\ call.raised # <<>>) =>
              /\ emitted[1].type = "OrderRejected"
              /\ emitted[1].reason = call.raised
        /\ emitted[1].type = "OrderRejected" =>
              C28_PendingAfter(c, n) = call.pending_before

C28_OneEventPerSubmit ==
    \A n \in 1 .. Len(execClient.calls) : C28_CallOk(execClient, n)

\* a submission that raised and one for an unknown instrument, both
\* rejected, each with its own reason
C28_Witness ==
    LET c == execClient
    IN  /\ Len(c.calls) = 2 /\ Len(c.events) = 2
        /\ c.calls[1].order.instrument_id \in DOMAIN c.instruments
        /\ c.calls[1].raised = <<"nonce too low">>
        /\ c.events[1].type = "OrderRejected"
        /\ c.calls[2].order.instrument_id \notin DOMAIN c.instruments
        /\ c.events[2].reason = <<"Instrument not found: ", InstrumentId("DOGE", "USDC")>>

\* ========================================================================
\* The execution algorithm (nt-implement/templates/exec_algorithm.py)
\* ========================================================================
\* Quantities are exact rationals; float(order.quantity) and
\* Decimal(str(x)) are exact on the quantities modelled.
DefaultHorizonSecs  == 60
DefaultIntervalSecs == 10

\* order.exec_algorithm_params: None or a dict
ExecParams ==
    {EmptyDict}
        \cup {[k \in {"horizon_secs", "interval_secs"} |-> IF k = "horizon_secs" THEN h ELSE i] :
                 h \in {-10, 0, 20, 50}, i \in {0, 10}}

params_get(params, key, default) ==
    IF key \in DOMAIN params THEN params[key] ELSE default

\* what the cache holds for the order's instrument
AlgoInstruments == {[id |-> PRIMARY_ID, size_precision |-> p] : p \in {0, 1}}

\* the primary orders: the quantity is a whole number of the instrument's
\* increments
PrimaryOrders ==
    {[client_order_id |-> "O-1", instrument |-> inst,
      quantity |-> Rat(units, Pow10(inst.size_precision)),
      exec_algorithm_params |-> <<p>>, in_cache |-> c] :
        inst \in AlgoInstruments, units \in {1, 3, 10},
        p \in ExecParams, c \in BOOLEAN}
       \cup
    {[client_order_id |-> "O-1", instrument |-> inst,
      quantity |-> Int2Rat(3),
      exec_algorithm_params |-> <<>>, in_cache |-> TRUE] :
        inst \in AlgoInstruments}

\* the outcome of _calculate_slice_sizes: the list, or the ValueError
\* of instrument.make_qty handed a negative value (a Quantity is never
\* negative), with the sizes appended until then
Sizes(kind, sizes) == [kind |-> kind, sizes |-> sizes]

\* the loop of _calculate_slice_sizes, i slices to go before the last
RECURSIVE slice_loop(_, _, _, _, _)
slice_loop(instrument, base_size, sizes, remaining, i) ==
    IF i = 0 THEN [sizes |-> sizes, remaining |-> remaining]
    ELSE LET size == make_qty(instrument, base_size)
         IN  slice_loop(instrument, base_size, Append(sizes, size), RSub(remaining, size), i - 1)

\* _calculate_slice_sizes
calculate_slice_sizes(instrument, total_qty, num_slices) ==
    LET base_size == RDiv(total_qty, Int2Rat(num_slices))
        l == slice_loop(instrument, base_size, <<>>, total_qty, num_slices - 1)
    IN  IF RLt(l.remaining, Zero)
        THEN Sizes("ValueError", l.sizes)
        ELSE Sizes("ok", Append(l.sizes, make_qty(instrument, l.remaining)))

\* the algorithm: _scheduled_sizes, the orders submitted, the time alerts
\* set and not yet fired, and what on_order did
Algo(scheduled_sizes, submitted, alerts, stopped, handled) ==
    [scheduled_sizes |-> scheduled_sizes, submitted |-> submitted, alerts |-> alerts, stopped |-> stopped, handled |-> handled]

NotHandled == [order |-> <<>>, outcome |-> "none", num_slices |-> 0, sizes |-> Sizes("none", <<>>)]

\* _submit_child: the order submitted
submit_child(a, parent, quantity, slice_idx, total_slices, via) ==
    IF slice_idx = total_slices - 1
    THEN [a EXCEPT !.submitted = Append(@, [order |-> "primary", client_order_id |-> parent.client_order_id, slice_idx |-> slice_idx, quantity |-> quantity, via |-> via])]
    ELSE [a EXCEPT !.submitted = Append(@, [order |-> "child", client_order_id |-> parent.client_order_id, slice_idx |-> slice_idx, quantity |-> quantity, via |-> via])]

\* the alerts on_order sets: slice i fires interval_secs * i after now
set_time_alerts(order_key, interval_secs, num_slices) ==
    {[name |-> <<order_key, "_slice_", i>>, after |-> interval_secs * i, idx |-> i] : i \in 1 .. num_slices - 1}

\* on_order
on_order(a, order) ==
    LET params        == IF order.exec_algorithm_params = <<>> THEN EmptyDict ELSE order.exec_algorithm_params[1]
        horizon_secs  == params_get(params, "horizon_secs", DefaultHorizonSecs)
        interval_secs == params_get(params, "interval_secs", DefaultIntervalSecs)
    IN  IF interval_secs <= 0 \/ horizon_secs <= 0
        THEN [a EXCEPT !.handled = [order |-> <<order>>, outcome |-> "invalid", num_slices |-> 0, sizes |-> Sizes("none", <<>>)]]
        ELSE
        LET int_ratio  == horizon_secs \div interval_secs
            num_slices == IF int_ratio > 1 THEN int_ratio ELSE 1
        IN  IF ~order.in_cache
            THEN [a EXCEPT !.handled = [order |-> <<order>>, outcome |-> "no instrument", num_slices |-> num_slices, sizes |-> Sizes("none", <<>>)]]
            ELSE
            LET sizes == calculate_slice_sizes(order.instrument, order.quantity, num_slices)
            IN  IF sizes.kind # "ok"
                THEN [a EXCEPT !.handled = [order |-> <<order>>, outcome |-> sizes.kind, num_slices |-> num_slices, sizes |-> sizes]]
                ELSE
                LET stored == [a EXCEPT !.scheduled_sizes = DictSet(@, order.client_order_id, sizes.sizes),
                                        !.handled = [order |-> <<order>>, outcome |-> "returned", num_slices |-> num_slices, sizes |-> sizes]]
                    first  == submit_child(stored, order, sizes.sizes[1], 0, num_slices, "on_order")
                IN  [first EXCEPT !.alerts = @ \cup set_time_alerts(order.client_order_id, interval_secs, num_slices)]

\* _on_scheduled_slice
on_scheduled_slice(a, parent, slice_idx, total_slices) ==
    LET order_key == parent.client_order_id
    IN  IF order_key \notin DOMAIN a.scheduled_sizes THEN a
        ELSE LET sizes == a.scheduled_sizes[order_key]
             IN  IF slice_idx >= Len(sizes) THEN a
                 ELSE submit_child(a, parent, sizes[slice_idx + 1], slice_idx, total_slices, "alert")

InitAlgo ==
    /\ AmmParked
    /\ algo = Algo(EmptyDict, <<>>, {}, FALSE, NotHandled)
    /\ env = "parked" /\ bundle = "parked" /\ prov = "parked"
    /\ strat = "parked" /\ tickOut = "parked"
    /\ book = "parked" /\ dataClient = "parked"
    /\ factory = "parked" /\ execClient = "parked"

AlgoOnly == UNCHANGED <<ammVars, env, bundle, prov, strat, tickOut, book, dataClient, factory, execClient>>

\* on_order(order), for one primary order, while the algorithm runs
OnOrder ==
    /\ algo.handled = NotHandled /\ ~algo.stopped
    /\ \E order \in PrimaryOrders : algo' = on_order(algo, order)
    /\ AlgoOnly

\* the clock fires the earliest alert: the lambda calls
\* _on_scheduled_slice(order, idx, num_slices)
TimeAlert ==
    /\ \E alert \in algo.alerts :
          /\ \A other \in algo.alerts : alert.after <= other.after
          /\ algo' = [on_scheduled_slice(algo, algo.handled.order[1], alert.idx, algo.handled.num_slices)
                         EXCEPT !.alerts = @ \ {alert}]
    /\ AlgoOnly

\* on_stop
OnStop ==
    /\ ~algo.stopped
    /\ algo' = [algo EXCEPT !.scheduled_sizes = EmptyDict, !.stopped = TRUE]
    /\ AlgoOnly

NextAlgo == OnOrder \/ TimeAlert \/ OnStop

SpecAlgo == InitAlgo /\ [][NextAlgo]_vars

\* ------------------------------------------------------------------------
\* C29: _calculate_slice_sizes returns exactly num_slices quantities that
\* partition the order: the first num_slices - 1 each equal
\* total_qty / num_slices rounded to the instrument's size precision, the
\* last is the remainder, no slice is negative and the slices sum to
\* total_qty, for every total_qty > 0 representable at that precision and
\* every num_slices >= 1.
\* ------------------------------------------------------------------------
RECURSIVE C29_Sum(_, _)
C29_Sum(sizes, n) == IF n = 0 THEN Zero ELSE RAdd(C29_Sum(sizes, n - 1), sizes[n])

\* on_order got as far as calling _calculate_slice_sizes
C29_Case == algo.handled.sizes.kind # "none"

C29_SlicesPartitionOrder ==
    C29_Case =>
        LET order == algo.handled.order[1]
            n     == algo.handled.num_slices
            out   == algo.handled.sizes
            base  == make_qty(order.instrument, RDiv(order.quantity, Int2Rat(n)))
        IN  /\ out.kind = "ok"
            /\ Len(out.sizes) = n
            /\ \A i \in 1 .. n - 1 : out.sizes[i] = base
            /\ out.sizes[n] = RSub(order.quantity, RMul(Int2Rat(n - 1), base))
            /\ \A i \in 1 .. n : RLe(Zero, out.sizes[i])
            /\ C29_Sum(out.sizes, n) = order.quantity


\* ------------------------------------------------------------------------
\* C30: for one primary order handled by on_order with valid parameters
\* and a known instrument, slice 0 is submitted immediately and slices
\* 1 .. num_slices - 1 are submitted one per time alert in index order,
\* each index at most once, the last index submitting the primary order
\* itself and every other index a spawned child; with horizon_secs <= 0,
\* interval_secs <= 0 or an unknown instrument nothing is submitted or
\* scheduled; once on_stop has run, an alert that fires later submits no
\* order.
\* ------------------------------------------------------------------------
C30_Valid(order) ==
    LET params == IF order.exec_algorithm_params = <<>> THEN EmptyDict ELSE order.exec_algorithm_params[1]
    IN  /\ params_get(params, "horizon_secs", 60) > 0
        /\ params_get(params, "interval_secs", 10) > 0
        /\ order.in_cache

C30_Handled ==
    LET order == algo.handled.order[1]
        n     == algo.handled.num_slices
        sub   == algo.submitted
    IN  IF C30_Valid(order)
        THEN /\ Len(sub) >= 1
             /\ sub[1].slice_idx = 0 /\ sub[1].via = "on_order"
             /\ Len(sub) <= n
             /\ \A j \in 1 .. Len(sub) :
                   /\ sub[j].slice_idx = j - 1
                   /\ j > 1 => sub[j].via = "alert"
                   /\ sub[j].order = (IF j = n THEN "primary" ELSE "child")
             /\ {alert.idx : alert \in algo.alerts} \subseteq 1 .. n - 1
             /\ ~algo.stopped => {alert.idx : alert \in algo.alerts} = Len(sub) .. n - 1
        ELSE sub = <<>> /\ algo.alerts = {}

\* a step in which an alert fires
C30_Alert ==
    algo'.alerts # algo.alerts /\ algo.alerts # {} =>
        /\ Len(algo'.submitted) <= Len(algo.submitted) + 1
        /\ algo.stopped => algo'.submitted = algo.submitted

C30_SlicesOnSchedule ==
    /\ [](algo.handled.outcome # "none" => C30_Handled)
    /\ [][C30_Alert]_vars

\* the same with the orders left out whose slicing raises
C30_HandledSliced ==
    (algo.handled.outcome # "none" /\ algo.handled.outcome # "ValueError") => C30_Handled

=============================================================================
